---- MODULE Spec2Model ----
(***************************************************************************)
(* Client of the libp2p daemon: the request dispatcher (Client.send), the  *)
(* core control operations (src/src/index.js), the DHT adapter             *)
(* (src/src/dht.js, class DHT at line 646) and the pubsub adapter          *)
(* (src/src/pubsub.js, class Pubsub at line 12).                           *)
(*                                                                         *)
(* A caller slot runs one operation at a time.  JavaScript runs a callback *)
(* to its next await, so every action below is the code between two        *)
(* awaits: the call up to the dial, the dial's completion up to the first  *)
(* read, one read's completion up to the next await, and the completion of *)
(* sh.close().                                                             *)
(***************************************************************************)
EXTENDS Integers, Sequences, FiniteSets, TLC

\* Bounds of the model.
MaxConns == 3
MaxFrames == 3
MaxListeners == 2
MaxCloses == 2
\* Payloads of up to MaxLen bytes are framed in every combination of
\* bytes, longer ones with one byte repeated; up to MaxPayloads payloads
\* are framed back to back.
MaxLen == 2
MaxPayloads == 2
\* The consumer of a sequence has at most MaxQueued requests for elements
\* waiting behind the one the generator is working on.
MaxQueued == 2

Slots == {1, 2}
Vals == {"a", "b"}
Msgs == {"", "m1", "m2"}
\* Values of the count argument of dht.findProviders (1 is its default).
Counts == {1, 2}

----------------------------------------------------------------------------
\* Operations of the client.

CoreOps == {"connect", "identify", "listPeers", "openStream", "registerStreamHandler"}
DhtSingleOps == {"put", "get", "findPeer", "provide", "getPublicKey"}
DhtStreamOps == {"findProviders", "getClosestPeers"}
PubsubSingleOps == {"getTopics", "publish"}
SingleShotOps == CoreOps \cup DhtSingleOps \cup PubsubSingleOps
StreamingOps == DhtStreamOps \cup {"subscribe"}
Ops == SingleShotOps \cup StreamingOps

\* The DHT stream operations as plain async functions, which check their
\* arguments when called.
GeneratorOpsNone == {}

\* async generator functions: the body runs only once next() is called.
GeneratorOps == DhtStreamOps

CountsOf(o) == IF o = "findProviders" THEN Counts ELSE {0}

\* The addresses a listener is asked for.
Addrs == {"a1", "a2"}
AddrsOf(o) == IF o = "registerStreamHandler" THEN Addrs ELSE {""}

\* The argument checks of each operation, in the order the code makes them.
Checks(o) ==
  CASE o = "connect" -> << <<"peerId", "ERR_INVALID_PEER_ID">>,
                           <<"addrs", "ERR_INVALID_ADDRS_TYPE">>,
                           <<"addr", "ERR_NO_MULTIADDR_RECEIVED">> >>
    [] o = "openStream" -> << <<"peerId", "ERR_INVALID_PEER_ID">>,
                              <<"protocol", "ERR_INVALID_PROTOCOL">> >>
    [] o = "registerStreamHandler" -> << <<"addr", "ERR_INVALID_MULTIADDR">>,
                                         <<"protocol", "ERR_INVALID_PROTOCOL">> >>
    [] o = "put" -> << <<"key", "ERR_INVALID_KEY">>, <<"value", "ERR_INVALID_VALUE">> >>
    [] o = "get" -> << <<"key", "ERR_INVALID_KEY">> >>
    [] o = "findPeer" -> << <<"peerId", "ERR_INVALID_PEER_ID">> >>
    [] o = "provide" -> << <<"cid", "ERR_INVALID_CID">> >>
    [] o = "findProviders" -> << <<"cid", "ERR_INVALID_CID">> >>
    [] o = "getClosestPeers" -> << <<"key", "ERR_INVALID_KEY">> >>
    [] o = "getPublicKey" -> << <<"peerId", "ERR_INVALID_PEER_ID">> >>
    [] o = "publish" -> << <<"topic", "ERR_INVALID_TOPIC">>, <<"data", "ERR_INVALID_DATA">> >>
    [] o = "subscribe" -> << <<"topic", "ERR_INVALID_TOPIC">> >>
    [] OTHER -> << >>

ArgsOf(o) == { Checks(o)[i][1] : i \in 1..Len(Checks(o)) }

\* Validate that goes through all the checks and reports the last one
\* that fails.
ValidateLast(o, bad) ==
  LET failing == { i \in 1..Len(Checks(o)) : Checks(o)[i][1] \in bad }
  IN IF failing = {} THEN "ok"
     ELSE Checks(o)[CHOOSE i \in failing : \A j \in failing : i >= j][2]

\* The code of the first check that fails on the set bad of invalid
\* arguments, "ok" when every check passes.
Validate(o, bad) ==
  LET failing == { i \in 1..Len(Checks(o)) : Checks(o)[i][1] \in bad }
  IN IF failing = {} THEN "ok"
     ELSE Checks(o)[CHOOSE i \in failing : \A j \in failing : i <= j][2]

\* FailureCode with dht.get's code copied from dht.put.
FailureCodeCopied(o) ==
  CASE o = "connect" -> "ERR_CONNECT_FAILED"
    [] o = "identify" -> "ERR_IDENTIFY_FAILED"
    [] o = "listPeers" -> "ERR_LIST_PEERS_FAILED"
    [] o = "openStream" -> "ERR_OPEN_STREAM_FAILED"
    [] o = "registerStreamHandler" -> "ERR_REGISTER_STREAM_HANDLER_FAILED"
    [] o = "put" -> "ERR_DHT_PUT_FAILED"
    [] o = "get" -> "ERR_DHT_PUT_FAILED"
    [] o = "findPeer" -> "ERR_DHT_FIND_PEER_FAILED"
    [] o = "provide" -> "ERR_DHT_PROVIDE_FAILED"
    [] o = "findProviders" -> "ERR_DHT_FIND_PROVIDERS_FAILED"
    [] o = "getClosestPeers" -> "ERR_DHT_FIND_PROVIDERS_FAILED"
    [] o = "getPublicKey" -> "ERR_DHT_GET_PUBLIC_KEY_FAILED"
    [] o = "getTopics" -> "ERR_PUBSUB_GET_TOPICS_FAILED"
    [] o = "publish" -> "ERR_PUBSUB_PUBLISH_FAILED"
    [] o = "subscribe" -> "ERR_PUBSUB_PUBLISH_FAILED"

\* The code each operation attaches to a failure reported by the daemon.
FailureCode(o) ==
  CASE o = "connect" -> "ERR_CONNECT_FAILED"
    [] o = "identify" -> "ERR_IDENTIFY_FAILED"
    [] o = "listPeers" -> "ERR_LIST_PEERS_FAILED"
    [] o = "openStream" -> "ERR_OPEN_STREAM_FAILED"
    [] o = "registerStreamHandler" -> "ERR_REGISTER_STREAM_HANDLER_FAILED"
    [] o = "put" -> "ERR_DHT_PUT_FAILED"
    [] o = "get" -> "ERR_DHT_GET_FAILED"
    [] o = "findPeer" -> "ERR_DHT_FIND_PEER_FAILED"
    [] o = "provide" -> "ERR_DHT_PROVIDE_FAILED"
    [] o = "findProviders" -> "ERR_DHT_FIND_PROVIDERS_FAILED"
    [] o = "getClosestPeers" -> "ERR_DHT_FIND_PROVIDERS_FAILED"
    [] o = "getPublicKey" -> "ERR_DHT_GET_PUBLIC_KEY_FAILED"
    [] o = "getTopics" -> "ERR_PUBSUB_GET_TOPICS_FAILED"
    [] o = "publish" -> "ERR_PUBSUB_PUBLISH_FAILED"
    [] o = "subscribe" -> "ERR_PUBSUB_PUBLISH_FAILED"

----------------------------------------------------------------------------
\* Frames the daemon puts on a connection, and what a read hands back.

Frame(k, e, m, v) ==
  [kind |-> k, err |-> e, msg |-> m, val |-> v, topics |-> << >>]

OkFrame == Frame("OK", "none", "", "")
\* An ERROR envelope without an error object, with an error object that has
\* no msg, and with an error object carrying msg.
ErrorFrames ==
  { Frame("ERROR", "none", "", ""), Frame("ERROR", "nomsg", "", "") }
    \cup { Frame("ERROR", "msg", m, "") : m \in Msgs }
\* What read() returns when the connection ended: undefined.
Undefined == Frame("UNDEF", "none", "", "")
\* The empty response of test/index.spec.js:279-290.
EmptyFrame == Frame("EMPTY", "none", "", "")
\* Bytes that are no message of the protocol: the decoders throw on them.
Malformed == Frame("MALFORMED", "none", "", "")
EnvelopeFrames == {OkFrame} \cup ErrorFrames

DhtFrames ==
  { Frame("VALUE", "none", "", v) : v \in Vals }
    \cup { Frame("END", "none", "", ""), Frame("BEGIN", "none", "", "") }
PsFrames == { Frame("PSMSG", "none", "", v) : v \in Vals }

\* JavaScript's !message.
Falsy(m) == m.kind \in {"UNDEF", "EMPTY"}

\* Response.decode: the envelope, or a failure on bytes that are none.
ResponseDecode(m) ==
  IF m.kind \in {"OK", "ERROR"}
    THEN [ok |-> TRUE, type |-> m.kind, err |-> m.err, msg |-> m.msg,
          val |-> m.val, topics |-> m.topics]
    ELSE [ok |-> FALSE, type |-> "", err |-> "none", msg |-> "", val |-> "",
          topics |-> << >>]

\* DHTResponse.decode: a frame of the DHT stream.
DHTResponseDecode(m) ==
  IF m.kind \in {"VALUE", "END", "BEGIN"}
    THEN [ok |-> TRUE, type |-> m.kind, err |-> "none", msg |-> "", val |-> m.val]
    ELSE [ok |-> FALSE, type |-> "", err |-> "none", msg |-> "", val |-> ""]

\* PSMessage.decode: a message of a subscription.
PSMessageDecode(m) ==
  IF m.kind = "PSMSG"
    THEN [ok |-> TRUE, type |-> m.kind, err |-> "none", msg |-> "", val |-> m.val]
    ELSE [ok |-> FALSE, type |-> "", err |-> "none", msg |-> "", val |-> ""]

----------------------------------------------------------------------------
\* Outcomes of a call.

Pending == [status |-> "pending", code |-> "", msg |-> ""]
Resolved == [status |-> "resolved", code |-> "", msg |-> ""]
Rejected(code, msg) == [status |-> "rejected", code |-> code, msg |-> msg]

\* Errors that carry no code of this library.
TypeErrorCode == "TypeError"
DecodeErrorCode == "DecodeError"
DialErrorCode == "DialError"
ListenErrorCode == "ListenError"

\* RemoteError that drops the daemon's message.
RemoteErrorNoMsg(r, code) ==
  IF r.err = "none" THEN Rejected(TypeErrorCode, "")
  ELSE Rejected(code, "")

\* errcode(new Error(response.error.msg), code): reading msg off a missing
\* error object is a TypeError; a missing msg gives the empty message.
RemoteError(r, code) ==
  IF r.err = "none" THEN Rejected(TypeErrorCode, "")
  ELSE Rejected(code, IF r.err = "msg" THEN r.msg ELSE "")

\* ConnectError without the fallbacks: new Error(response.error.msg).
ConnectErrorNoDefault(r) ==
  IF r.err = "none" THEN Rejected(TypeErrorCode, "")
  ELSE Rejected("ERR_CONNECT_FAILED", IF r.err = "msg" THEN r.msg ELSE "")

\* connect's errcode(new Error(errResponse.msg || 'unspecified'), ...) with
\* errResponse = response.error || {}.
ConnectError(r) ==
  Rejected("ERR_CONNECT_FAILED",
           IF r.err = "msg" /\ r.msg # "" THEN r.msg ELSE "unspecified")

----------------------------------------------------------------------------
\* State.
\*   calls[s]  the call running in caller slot s: its operation, the set of
\*             its invalid arguments, its position, its stream handle (the
\*             connection the handle wraps, 0 before send returned), whether
\*             the OK envelope was seen, its outcome, the outcome it throws
\*             or returns once sh.close() completes, the values it yielded,
\*             the decoders it applied, the dials and reads it issued, the
\*             count it asked for (findProviders), the connection it
\*             returned to its caller (openStream, 0 for none), the address
\*             it was given (start, registerStreamHandler), the listener
\*             it is closing or making listen (start, close), whether its
\*             consumer stopped the sequence before it ended, the elements
\*             its consumer asked for, the key, value and topic it was
\*             given, the value (dht.get) and the topics (getTopics) it
\*             returned, the topics of the subscriptions that had resolved
\*             when it was invoked.
\*   conns     the connections dialed so far, in dial order: state, handles
\*             constructed over it, request frames written, frames read,
\*             close() calls made on its handle, whether one of them threw.

\*   listener  the client's listener field: the listener it records as its
\*             own, 0 for null.
\*   listeners the listeners the client created so far, in creation order:
\*             state and address.

\*   daemon    the daemon the client talks to: the values it stores under
\*             keys and, in subscription order, the subscriptions it
\*             accepted with the connection each came on.

VARIABLES calls, conns, listener, listeners, daemon

vars == <<calls, conns, listener, listeners, daemon>>

\* The keys of the DHT and the topics of pubsub the callers use.
Keys == {"k1", "k2"}
Topics == {"t1", "t2"}
NoValue == ""

\* A daemon that stores nothing and has no subscription.
InitDaemon == [store |-> [k \in Keys |-> NoValue], subs |-> << >>]

InitCall ==
  [op |-> "none", bad |-> {}, pc |-> "idle", sh |-> 0, begun |-> FALSE,
   res |-> Pending, after |-> Pending, yields |-> <<>>, decoded |-> <<>>,
   dials |-> 0, reads |-> 0, count |-> 0, ret |-> 0, addr |-> "", lis |-> 0,
   stopped |-> FALSE, pulls |-> 0, key |-> "", value |-> "", topic |-> "",
   got |-> NoValue, topics |-> << >>, before |-> {}, queued |-> 0]

NewConn ==
  [state |-> "open", handles |-> 0, writes |-> 0, rx |-> <<>>, closes |-> 0,
   threw |-> FALSE, unblocked |-> FALSE,
   out |-> << >>, framed |-> 0, wire |-> << >>,
   dec |-> [of |-> 0, frames |-> << >>, error |-> FALSE],
   bad |-> "none", seen |-> [frames |-> << >>, error |-> "none"]]

\* close() that takes a handle already closed for an error.
StreamHandlerCloseOnce(cn) ==
  [cn EXCEPT !.state = IF @ \in {"open", "ended"} THEN "closed" ELSE @,
             !.closes = @ + 1,
             !.threw = (cn.state = "closed")]

\* The Stream Handle's close() on the handle over connection cn: it
\* releases the connection; on a handle already closed it does nothing.
StreamHandlerClose(cn) ==
  [cn EXCEPT !.state = IF @ \in {"open", "ended"} THEN "closed" ELSE @,
             !.closes = @ + 1]

\* read() on a closed handle that stays pending.
StreamHandlerReadHangs(cn, frames) ==
  IF cn.state = "open" THEN frames ELSE {}

\* The Stream Handle's read() on the handle over connection cn: what a
\* pending read may complete with, given the frames the daemon may send
\* next.  Once the handle is closed the read completes with the
\* end-of-stream marker.
StreamHandlerRead(cn, frames) ==
  IF cn.state = "open" THEN frames
  ELSE IF cn.state = "closed" THEN {Undefined}
  ELSE {}

\* tcp.createListener(...) for a start with address a.
createListener(a) == [state |-> "created", addr |-> a]

Init ==
  /\ calls = [s \in Slots |-> InitCall]
  /\ conns = <<>>
  /\ listener = 0
  /\ listeners = <<>>
  /\ daemon = InitDaemon

----------------------------------------------------------------------------
\* What the code does with a call c once a read returned: the new call,
\* what happens to the connection of its handle, and what happens to the
\* client's listener.

Throw(c, out) ==
  [call |-> [c EXCEPT !.pc = "done", !.res = out], conn |-> "keep", lis |-> "keep"]

\* await sh.close(), then return or throw.
CloseThen(c, out) ==
  [call |-> [c EXCEPT !.pc = "closing", !.after = out], conn |-> "close",
   lis |-> "keep"]

\* the next sh.read() of a streaming loop.
ReadAgain(c) ==
  [call |-> [c EXCEPT !.pc = "reading", !.reads = @ + 1], conn |-> "keep",
   lis |-> "keep"]

\* yield v: the generator suspends; with a request for the next element
\* already waiting it is resumed at once and runs to its next sh.read().
Yield(c, v) ==
  [call |-> IF c.queued > 0
              THEN [c EXCEPT !.pc = "reading", !.reads = @ + 1,
                             !.yields = Append(@, v), !.queued = @ - 1]
              ELSE [c EXCEPT !.pc = "suspended", !.yields = Append(@, v)],
   conn |-> "keep", lis |-> "keep"]

Decoding(c, d) == [c EXCEPT !.decoded = Append(@, d)]

DecodeFailed == Rejected(DecodeErrorCode, "")

\* connect without the check of the message before it is decoded.
connectNoGuard(c, m) ==
  LET r == ResponseDecode(m)
      d == Decoding(c, "Response")
  IN IF ~r.ok THEN Throw(d, DecodeFailed)
     ELSE IF r.type # "OK" THEN Throw(d, ConnectError(r))
     ELSE CloseThen(d, Resolved)

\* Client.connect from the read on.
connect(c, m) ==
  IF Falsy(m) THEN Throw(c, Rejected("ERR_CONNECT_FAILED", "unspecified"))
  ELSE LET r == ResponseDecode(m)
           d == Decoding(c, "Response")
       IN IF ~r.ok THEN Throw(d, DecodeFailed)
          ELSE IF r.type # "OK" THEN Throw(d, ConnectError(r))
          ELSE CloseThen(d, Resolved)

\* identify that takes a read without a message for a pause and reads
\* again.
identifyWaits(c, m) ==
  IF Falsy(m) THEN ReadAgain(c)
  ELSE LET r == ResponseDecode(m)
           d == Decoding(c, "Response")
       IN IF ~r.ok THEN Throw(d, DecodeFailed)
          ELSE IF r.type # "OK" THEN Throw(d, RemoteError(r, FailureCode("identify")))
          ELSE CloseThen(d, Resolved)

\* Client.identify from the read on.
identify(c, m) ==
  LET r == ResponseDecode(m)
      d == Decoding(c, "Response")
  IN IF ~r.ok THEN Throw(d, DecodeFailed)
     ELSE IF r.type # "OK" THEN Throw(d, RemoteError(r, FailureCode("identify")))
     ELSE CloseThen(d, Resolved)

\* Client.listPeers from the read on.
listPeers(c, m) ==
  LET r == ResponseDecode(m)
      d == Decoding(c, "Response")
  IN IF ~r.ok THEN Throw(d, DecodeFailed)
     ELSE IF r.type # "OK" THEN Throw(d, RemoteError(r, FailureCode("listPeers")))
     ELSE CloseThen(d, Resolved)

\* openStream that reads the handle again after sh.rest().
openStreamReadsOn(c, m) ==
  LET r == ResponseDecode(m)
      d == Decoding(c, "Response")
  IN IF ~r.ok THEN Throw(d, DecodeFailed)
     ELSE IF r.type # "OK"
       THEN CloseThen(d, RemoteError(r, FailureCode("openStream")))
     ELSE [call |-> [d EXCEPT !.pc = "reading", !.reads = @ + 1, !.ret = d.sh],
           conn |-> "detach", lis |-> "keep"]

\* Client.openStream from the read on: sh.rest() on OK.
openStream(c, m) ==
  LET r == ResponseDecode(m)
      d == Decoding(c, "Response")
  IN IF ~r.ok THEN Throw(d, DecodeFailed)
     ELSE IF r.type # "OK"
       THEN CloseThen(d, RemoteError(r, FailureCode("openStream")))
     ELSE [call |-> [d EXCEPT !.pc = "done", !.res = Resolved, !.ret = d.sh],
           conn |-> "detach", lis |-> "keep"]

\* The operations that close the handle right after decoding the envelope
\* and only then look at its type: registerStreamHandler, dht.put, dht.get,
\* dht.findPeer, dht.provide, dht.getPublicKey, pubsub.getTopics,
\* pubsub.publish.
CloseFirst(c, m) ==
  LET r == ResponseDecode(m)
      d == Decoding(c, "Response")
  IN IF ~r.ok THEN Throw(d, DecodeFailed)
     ELSE CloseThen(d, IF r.type # "OK" THEN RemoteError(r, FailureCode(c.op))
                       ELSE Resolved)

\* registerStreamHandler that also starts a listener at its address.
registerStreamHandlerListens(c, m) == [CloseFirst(c, m) EXCEPT !.lis = "start"]

registerStreamHandler(c, m) == CloseFirst(c, m)
put(c, m) == CloseFirst(c, m)
\* dht.get that returns the key of the response.
getReturnsKey(c, m) ==
  LET r == ResponseDecode(m)
      e == CloseFirst(c, m)
  IN IF r.ok /\ r.type = "OK" THEN [e EXCEPT !.call.got = c.key] ELSE e

\* DHT.get: CloseFirst, and return response.dht.value on OK.
get(c, m) ==
  LET r == ResponseDecode(m)
      e == CloseFirst(c, m)
  IN IF r.ok /\ r.type = "OK" THEN [e EXCEPT !.call.got = r.val] ELSE e
findPeer(c, m) == CloseFirst(c, m)
provide(c, m) == CloseFirst(c, m)
getPublicKey(c, m) == CloseFirst(c, m)
\* Pubsub.getTopics: CloseFirst, and return response.pubsub.topics on OK.
getTopics(c, m) ==
  LET r == ResponseDecode(m)
      e == CloseFirst(c, m)
  IN IF r.ok /\ r.type = "OK" THEN [e EXCEPT !.call.topics = r.topics] ELSE e
publish(c, m) == CloseFirst(c, m)

\* findProviders that decodes every frame, the first included, as a frame of
\* the DHT stream.
findProvidersNoEnvelope(c, m) ==
  LET r == DHTResponseDecode(m)
      d == Decoding(c, "DHTResponse")
  IN IF ~r.ok THEN Throw(d, DecodeFailed)
     ELSE IF r.type = "END" THEN CloseThen(d, Resolved)
     ELSE IF r.type = "VALUE" THEN Yield(d, r.val)
     ELSE CloseThen(d, Rejected("ERR_UNEXPECTED_MESSAGE_RECEIVED", "unexpected message received"))

\* findProviders that stops once it has yielded count results.
findProvidersCounted(c, m) ==
  IF ~c.begun
    THEN LET r == ResponseDecode(m)
             d == Decoding(c, "Response")
         IN IF ~r.ok THEN Throw(d, DecodeFailed)
            ELSE IF r.type # "OK"
              THEN CloseThen(d, RemoteError(r, FailureCode("findProviders")))
            ELSE ReadAgain([d EXCEPT !.begun = TRUE])
    ELSE LET r == DHTResponseDecode(m)
             d == Decoding(c, "DHTResponse")
         IN IF ~r.ok THEN Throw(d, DecodeFailed)
            ELSE IF r.type = "END" \/ Len(c.yields) >= c.count THEN CloseThen(d, Resolved)
            ELSE IF r.type = "VALUE" THEN Yield(d, r.val)
            ELSE CloseThen(d, Rejected("ERR_UNEXPECTED_MESSAGE_RECEIVED", "unexpected message received"))

\* DHT.findProviders from a read on: the envelope, then the stream loop.
findProviders(c, m) ==
  IF ~c.begun
    THEN LET r == ResponseDecode(m)
             d == Decoding(c, "Response")
         IN IF ~r.ok THEN Throw(d, DecodeFailed)
            ELSE IF r.type # "OK"
              THEN CloseThen(d, RemoteError(r, FailureCode("findProviders")))
            ELSE ReadAgain([d EXCEPT !.begun = TRUE])
    ELSE LET r == DHTResponseDecode(m)
             d == Decoding(c, "DHTResponse")
         IN IF ~r.ok THEN Throw(d, DecodeFailed)
            ELSE IF r.type = "END" THEN CloseThen(d, Resolved)
            ELSE IF r.type = "VALUE" THEN Yield(d, r.val)
            ELSE CloseThen(d, Rejected("ERR_UNEXPECTED_MESSAGE_RECEIVED", "unexpected message received"))

\* getClosestPeers that throws on an unexpected frame without closing.
getClosestPeersNoClose(c, m) ==
  IF ~c.begun
    THEN LET r == ResponseDecode(m)
             d == Decoding(c, "Response")
         IN IF ~r.ok THEN Throw(d, DecodeFailed)
            ELSE IF r.type # "OK"
              THEN CloseThen(d, RemoteError(r, FailureCode("getClosestPeers")))
            ELSE ReadAgain([d EXCEPT !.begun = TRUE])
    ELSE LET r == DHTResponseDecode(m)
             d == Decoding(c, "DHTResponse")
         IN IF ~r.ok THEN Throw(d, DecodeFailed)
            ELSE IF r.type = "END" THEN CloseThen(d, Resolved)
            ELSE IF r.type = "VALUE" THEN Yield(d, r.val)
            ELSE Throw(d, Rejected("ERR_UNEXPECTED_MESSAGE_RECEIVED", "unexpected message received"))

\* getClosestPeers that reads the next frame as soon as it has a result,
\* before the consumer asks for one.
getClosestPeersReadsAhead(c, m) ==
  IF ~c.begun
    THEN LET r == ResponseDecode(m)
             d == Decoding(c, "Response")
         IN IF ~r.ok THEN Throw(d, DecodeFailed)
            ELSE IF r.type # "OK"
              THEN CloseThen(d, RemoteError(r, FailureCode("getClosestPeers")))
            ELSE ReadAgain([d EXCEPT !.begun = TRUE])
    ELSE LET r == DHTResponseDecode(m)
             d == Decoding(c, "DHTResponse")
         IN IF ~r.ok THEN Throw(d, DecodeFailed)
            ELSE IF r.type = "END" THEN CloseThen(d, Resolved)
            ELSE IF r.type = "VALUE"
              THEN ReadAgain([d EXCEPT !.yields = Append(@, r.val)])
            ELSE CloseThen(d, Rejected("ERR_UNEXPECTED_MESSAGE_RECEIVED", "unexpected message received"))

\* DHT.getClosestPeers from a read on.
getClosestPeers(c, m) ==
  IF ~c.begun
    THEN LET r == ResponseDecode(m)
             d == Decoding(c, "Response")
         IN IF ~r.ok THEN Throw(d, DecodeFailed)
            ELSE IF r.type # "OK"
              THEN CloseThen(d, RemoteError(r, FailureCode("getClosestPeers")))
            ELSE ReadAgain([d EXCEPT !.begun = TRUE])
    ELSE LET r == DHTResponseDecode(m)
             d == Decoding(c, "DHTResponse")
         IN IF ~r.ok THEN Throw(d, DecodeFailed)
            ELSE IF r.type = "END" THEN CloseThen(d, Resolved)
            ELSE IF r.type = "VALUE" THEN Yield(d, r.val)
            ELSE CloseThen(d, Rejected("ERR_UNEXPECTED_MESSAGE_RECEIVED", "unexpected message received"))

\* subscribe that closes its handle once the daemon accepted the
\* subscription.
subscribeCloses(c, m) ==
  IF ~c.begun
    THEN LET r == ResponseDecode(m)
             d == Decoding(c, "Response")
         IN IF ~r.ok THEN Throw(d, DecodeFailed)
            ELSE IF r.type # "OK"
              THEN Throw(d, RemoteError(r, FailureCode("subscribe")))
            ELSE [call |-> [d EXCEPT !.begun = TRUE, !.pc = "suspended"],
                  conn |-> "close", lis |-> "keep"]
    ELSE LET r == PSMessageDecode(m)
             d == Decoding(c, "PSMessage")
         IN IF ~r.ok THEN Throw(d, DecodeFailed)
            ELSE Yield(d, r.val)

\* subscribe that takes a read without a message for a pause and reads on.
subscribeReadsOn(c, m) ==
  IF ~c.begun
    THEN LET r == ResponseDecode(m)
             d == Decoding(c, "Response")
         IN IF ~r.ok THEN Throw(d, DecodeFailed)
            ELSE IF r.type # "OK"
              THEN Throw(d, RemoteError(r, FailureCode("subscribe")))
            ELSE [call |-> [d EXCEPT !.begun = TRUE, !.pc = "suspended"],
                  conn |-> "keep", lis |-> "keep"]
    ELSE IF Falsy(m) THEN ReadAgain(c)
    ELSE LET r == PSMessageDecode(m)
             d == Decoding(c, "PSMessage")
         IN IF ~r.ok THEN Throw(d, DecodeFailed)
            ELSE Yield(d, r.val)

\* subscribe that drops a message equal to the one it yielded last.
subscribeDedup(c, m) ==
  IF ~c.begun
    THEN LET r == ResponseDecode(m)
             d == Decoding(c, "Response")
         IN IF ~r.ok THEN Throw(d, DecodeFailed)
            ELSE IF r.type # "OK"
              THEN Throw(d, RemoteError(r, FailureCode("subscribe")))
            ELSE [call |-> [d EXCEPT !.begun = TRUE, !.pc = "suspended"],
                  conn |-> "keep", lis |-> "keep"]
    ELSE LET r == PSMessageDecode(m)
             d == Decoding(c, "PSMessage")
         IN IF ~r.ok THEN Throw(d, DecodeFailed)
            ELSE IF c.yields # << >> /\ c.yields[Len(c.yields)] = r.val
              THEN ReadAgain(d)
            ELSE Yield(d, r.val)

\* Pubsub.subscribe from a read on: the envelope, after which the sequence
\* is returned, then one message per step of the sequence.
subscribe(c, m) ==
  IF ~c.begun
    THEN LET r == ResponseDecode(m)
             d == Decoding(c, "Response")
         IN IF ~r.ok THEN Throw(d, DecodeFailed)
            ELSE IF r.type # "OK"
              THEN Throw(d, RemoteError(r, FailureCode("subscribe")))
            ELSE [call |-> [d EXCEPT !.begun = TRUE, !.pc = "suspended"],
                  conn |-> "keep", lis |-> "keep"]
    ELSE LET r == PSMessageDecode(m)
             d == Decoding(c, "PSMessage")
         IN IF ~r.ok THEN Throw(d, DecodeFailed)
            ELSE Yield(d, r.val)

OnRead(c, m) ==
  CASE c.op = "connect" -> connect(c, m)
    [] c.op = "identify" -> identify(c, m)
    [] c.op = "listPeers" -> listPeers(c, m)
    [] c.op = "openStream" -> openStream(c, m)
    [] c.op = "registerStreamHandler" -> registerStreamHandler(c, m)
    [] c.op = "put" -> put(c, m)
    [] c.op = "get" -> get(c, m)
    [] c.op = "findPeer" -> findPeer(c, m)
    [] c.op = "provide" -> provide(c, m)
    [] c.op = "getPublicKey" -> getPublicKey(c, m)
    [] c.op = "findProviders" -> findProviders(c, m)
    [] c.op = "getClosestPeers" -> getClosestPeers(c, m)
    [] c.op = "getTopics" -> getTopics(c, m)
    [] c.op = "publish" -> publish(c, m)
    [] c.op = "subscribe" -> subscribe(c, m)

----------------------------------------------------------------------------
\* The request dispatcher.

\* connectDaemon that hands out the connection dialed last, if there is one.
connectDaemonPooled(cs) == IF cs = << >> THEN 1 ELSE Len(cs)

\* Client.connectDaemon: tcp.dial gives a connection of its own, the next
\* in dial order.
connectDaemon(cs) == Len(cs) + 1

\* send that writes the request twice.
sendWritesTwice(cs) ==
  LET id == connectDaemon(cs)
      base == IF id > Len(cs) THEN Append(cs, NewConn) ELSE cs
  IN [sh |-> id,
      conns |-> [base EXCEPT ![id].handles = @ + 1, ![id].writes = @ + 2]]

\* send that reuses the connection dialed last while it is open.
sendReusing(cs) ==
  LET id == IF cs # << >> /\ cs[Len(cs)].state = "open" THEN Len(cs)
            ELSE Len(cs) + 1
      base == IF id > Len(cs) THEN Append(cs, NewConn) ELSE cs
  IN [sh |-> id,
      conns |-> [base EXCEPT ![id].handles = @ + 1, ![id].writes = @ + 1]]

\* Client.send once the dial completed: a handle over the connection and
\* the request written on it.
send(cs) ==
  LET id == connectDaemon(cs)
      base == IF id > Len(cs) THEN Append(cs, NewConn) ELSE cs
  IN [sh |-> id,
      conns |-> [base EXCEPT ![id].handles = @ + 1, ![id].writes = @ + 1]]

\* Enter that calls send before it looks at the arguments.
EnterSendFirst(c) == [c EXCEPT !.pc = "dialing", !.dials = @ + 1]

\* The start of an operation's body: the argument checks, then the call of
\* send, which starts the dial.
Enter(c) ==
  LET v == Validate(c.op, c.bad)
  IN IF v # "ok" THEN [c EXCEPT !.pc = "done", !.res = Rejected(v, "")]
     ELSE [c EXCEPT !.pc = "dialing", !.dials = @ + 1]

Dialing == { s \in Slots : calls[s].pc = "dialing" }
CanDial == Len(conns) + Cardinality(Dialing) < MaxConns

\* The frames the daemon may deliver next on a connection that carried rx.
Incoming(o, rx) ==
  IF rx = << >> THEN EnvelopeFrames \cup {Undefined, EmptyFrame, Malformed}
  ELSE IF o \in DhtStreamOps THEN DhtFrames \cup {Undefined, Malformed}
  ELSE IF o = "subscribe" THEN PsFrames \cup {Undefined, Malformed}
  ELSE {}

----------------------------------------------------------------------------
\* Actions.

\* The frames read so far on the connection of the handle of slot s.
Rx(s) ==
  IF calls[s].sh \in 1..Len(conns) THEN conns[calls[s].sh].rx ELSE << >>

\* The caller invokes operation o with the arguments in b invalid, with
\* count k and address a.
Call(s, o, b, k, a) ==
  /\ calls[s].pc = "idle"
  /\ LET c0 == [InitCall EXCEPT !.op = o, !.bad = b, !.count = k, !.addr = a]
         c1 == IF o \in GeneratorOps THEN [c0 EXCEPT !.pc = "suspended"]
               ELSE Enter(c0)
     IN /\ c1.pc = "dialing" => CanDial
        /\ calls' = [calls EXCEPT ![s] = c1]
  /\ UNCHANGED <<conns, listener, listeners, daemon>>

\* The consumer of a sequence asks for its next element.
Pull(s) ==
  /\ calls[s].pc = "suspended"
  /\ LET c == calls[s]
         c1 == IF c.sh = 0 THEN Enter(c)
               ELSE [c EXCEPT !.pc = "reading", !.reads = @ + 1]
     IN /\ c1.pc = "dialing" => CanDial
        /\ calls' = [calls EXCEPT ![s] = [c1 EXCEPT !.pulls = @ + 1]]
  /\ UNCHANGED <<conns, listener, listeners, daemon>>

\* A sequence whose next() reads the handle itself when asked for an
\* element while its earlier read is pending.
PullAheadUnqueued(s) ==
  /\ calls[s].op \in StreamingOps
  /\ calls[s].pc = "reading" /\ calls[s].begun
  /\ calls[s].queued < MaxQueued
  /\ calls' = [calls EXCEPT ![s] =
                 [@ EXCEPT !.pulls = @ + 1, !.reads = @ + 1, !.queued = @ + 1]]
  /\ UNCHANGED <<conns, listener, listeners, daemon>>

\* The consumer of a sequence asks for another element while the generator
\* is running for an earlier request: the request waits in the generator's
\* queue.  The sequence of subscribe exists once subscribe has resolved.
PullAhead(s) ==
  /\ calls[s].op \in StreamingOps
  /\ calls[s].pc \in {"dialing", "reading", "closing"}
  /\ calls[s].op = "subscribe" => calls[s].begun
  /\ calls[s].queued < MaxQueued
  /\ calls' = [calls EXCEPT ![s] =
                 [@ EXCEPT !.pulls = @ + 1, !.queued = @ + 1]]
  /\ UNCHANGED <<conns, listener, listeners, daemon>>

\* The consumer of a sequence stops before the sequence ended: it leaves
\* its for-await loop and the loop calls return() on the generator, which
\* is suspended at its start or at a yield.  The generators have no
\* try/finally, so return() runs none of their code.
Stop(s) ==
  /\ calls[s].pc = "suspended"
  /\ calls' = [calls EXCEPT ![s] =
                 [@ EXCEPT !.pc = "done", !.res = Resolved, !.stopped = TRUE]]
  /\ UNCHANGED <<conns, listener, listeners, daemon>>

\* The dial completes: send returns the handle and the operation reads.
DialDone(s) ==
  /\ calls[s].pc = "dialing"
  /\ LET r == send(conns)
     IN /\ calls' = [calls EXCEPT ![s] =
                       [@ EXCEPT !.sh = r.sh, !.pc = "reading", !.reads = @ + 1]]
        /\ conns' = r.conns
  /\ UNCHANGED <<listener, listeners, daemon>>

\* DialFail of a send that constructs its handle and writes the request
\* before the dial has completed.
DialFailAfterWrite(s) ==
  /\ calls[s].pc = "dialing"
  /\ LET r == send(conns)
     IN /\ calls' = [calls EXCEPT ![s] =
                       [@ EXCEPT !.sh = r.sh, !.pc = "done",
                                 !.res = Rejected(DialErrorCode, "")]]
        /\ conns' = [r.conns EXCEPT ![r.sh].state = "closed"]
  /\ UNCHANGED <<listener, listeners, daemon>>

\* The dial fails: send rejects and so does the operation.
DialFail(s) ==
  /\ calls[s].pc = "dialing"
  /\ calls' = [calls EXCEPT ![s] =
                 [@ EXCEPT !.pc = "done", !.res = Rejected(DialErrorCode, "")]]
  /\ UNCHANGED <<conns, listener, listeners, daemon>>

\* The pending read of the call in slot s completes with frame m, or with
\* undefined when the daemon ended the connection, and the operation runs
\* to its next await.
Deliver(s, m) ==
  LET c == calls[s]
  IN /\ c.pc = "reading"
     /\ c.sh \in 1..Len(conns)
     /\ m \in StreamHandlerRead(conns[c.sh], {m})
     /\ Len(conns[c.sh].rx) <= MaxFrames \/ conns[c.sh].state = "closed"
     /\ LET e == OnRead(c, m)
            cn == [conns[c.sh] EXCEPT !.rx = Append(@, m),
                                      !.unblocked = @ \/ conns[c.sh].state = "closed"]
            after == IF e.conn = "close" THEN StreamHandlerClose(cn)
                     ELSE IF e.conn = "detach" THEN [cn EXCEPT !.state = "detached"]
                     ELSE IF m = Undefined /\ cn.state = "open"
                       THEN [cn EXCEPT !.state = "ended"]
                     ELSE cn
        IN /\ calls' = [calls EXCEPT ![s] = e.call]
           /\ conns' = [conns EXCEPT ![c.sh] = after]
           /\ IF e.lis = "start"
                THEN /\ listeners' = Append(listeners,
                                     [createListener(c.addr) EXCEPT !.state = "listening"])
                     /\ listener' = Len(listeners) + 1
                ELSE UNCHANGED <<listener, listeners>>

\* A read completes with one of the frames a daemon may send.
ReadDone(s, m) ==
  /\ m \in Incoming(calls[s].op, Rx(s))
  /\ Deliver(s, m)
  /\ UNCHANGED daemon

\* Whoever holds the handle over connection i calls close() on it.
CloseHandle(i) ==
  /\ i \in 1..Len(conns)
  /\ conns[i].state # "detached"
  /\ conns[i].closes < MaxCloses
  /\ conns' = [conns EXCEPT ![i] = StreamHandlerClose(@)]
  /\ UNCHANGED <<calls, listener, listeners, daemon>>

\* sh.close() completes and the operation returns or throws.
CloseDone(s) ==
  /\ calls[s].pc = "closing"
  /\ calls' = [calls EXCEPT ![s] = [@ EXCEPT !.pc = "done", !.res = calls[s].after]]
  /\ UNCHANGED <<conns, listener, listeners, daemon>>

\* The caller has the outcome; the slot is free for its next call.  The
\* frames logged for the call's connection are dropped with it.
Return(s) ==
  /\ calls[s].pc = "done"
  /\ calls' = [calls EXCEPT ![s] = InitCall]
  /\ conns' = IF calls[s].sh \in 1..Len(conns)
                THEN [conns EXCEPT ![calls[s].sh].rx = << >>]
                ELSE conns
  /\ UNCHANGED <<listener, listeners, daemon>>

\* The request object dht.put, dht.get, pubsub.getTopics and
\* pubsub.subscribe hand to send.
Request(c) ==
  CASE c.op = "put" ->
         [type |-> "DHT", sub |-> "PUT_VALUE", key |-> c.key, value |-> c.value,
          topic |-> ""]
    [] c.op = "get" ->
         [type |-> "DHT", sub |-> "GET_VALUE", key |-> c.key, value |-> "",
          topic |-> ""]
    [] c.op = "getTopics" ->
         [type |-> "PUBSUB", sub |-> "GET_TOPICS", key |-> "", value |-> "",
          topic |-> ""]
    [] c.op = "subscribe" ->
         [type |-> "PUBSUB", sub |-> "SUBSCRIBE", key |-> "", value |-> "",
          topic |-> c.topic]

\* The topics of a sequence of subscriptions, each once, in the order of
\* its first subscription.
RECURSIVE TopicsOf(_)
TopicsOf(subs) ==
  IF subs = << >> THEN << >>
  ELSE LET n == Len(subs)
           front == TopicsOf(SubSeq(subs, 1, n - 1))
       IN IF \E i \in 1..Len(front) : front[i] = subs[n].topic THEN front
          ELSE Append(front, subs[n].topic)

\* The topics the daemon is subscribed to: those of the subscriptions
\* whose connection is still open.
LiveTopics(d) ==
  TopicsOf(SelectSeq(d.subs, LAMBDA x : conns[x.conn].state = "open"))

\* What a daemon with a value store and a subscription table may answer to
\* request req that came on connection i, and what it becomes.
DaemonAnswers(d, req, i) ==
  LET refused == [frame |-> Frame("ERROR", "msg", "m1", ""), daemon |-> d]
  IN CASE req.sub = "PUT_VALUE" ->
            { [frame |-> OkFrame,
               daemon |-> [d EXCEPT !.store[req.key] = req.value]],
              refused }
       [] req.sub = "GET_VALUE" ->
            IF req.key \in Keys /\ d.store[req.key] # NoValue
              THEN { [frame |-> Frame("OK", "none", "", d.store[req.key]),
                      daemon |-> d] }
              ELSE { refused }
       [] req.sub = "GET_TOPICS" ->
            { [frame |-> [OkFrame EXCEPT !.topics = LiveTopics(d)], daemon |-> d] }
       [] req.sub = "SUBSCRIBE" ->
            { [frame |-> OkFrame,
               daemon |-> [d EXCEPT !.subs =
                             Append(@, [conn |-> i, topic |-> req.topic])]],
              refused }

\* The topics of the subscriptions that have resolved and are live in the
\* slots other than s.
Subscribed(s) ==
  { calls[t].topic : t \in { u \in Slots \ {s} :
      calls[u].op = "subscribe" /\ calls[u].begun /\ calls[u].pc = "suspended" } }

\* The caller invokes dht.put(k, v), dht.get(k), pubsub.subscribe(t) or
\* pubsub.getTopics() with valid arguments.
Ask(s, o, k, v, t) ==
  /\ calls[s].pc = "idle"
  /\ CanDial
  /\ calls' = [calls EXCEPT ![s] =
                 Enter([InitCall EXCEPT !.op = o, !.key = k, !.value = v,
                                        !.topic = t, !.before = Subscribed(s)])]
  /\ UNCHANGED <<conns, listener, listeners, daemon>>

\* The daemon answers the request of the call in slot s and the call's
\* read completes with the answer.
Serve(s) ==
  /\ calls[s].pc = "reading"
  /\ Rx(s) = << >>
  /\ \E a \in DaemonAnswers(daemon, Request(calls[s]), calls[s].sh) :
       /\ Deliver(s, a.frame)
       /\ daemon' = a.daemon

\* start that does not stop the listener the client has.
startAdditive(l) == "creating"

\* Client.start up to its first await: with a listener recorded it awaits
\* this.close(), without one it goes on to create the listener.
start(l) == IF l # 0 THEN "stopping" ELSE "creating"

\* close that awaits a listener's close whether or not one is recorded.
closeUnguarded(l) == "stopping"

\* Client.close up to its first await: this.listener && await
\* this.listener.close().
close(l) == IF l # 0 THEN "stopping" ELSE "done"

\* The caller invokes start(a, connectionHandler).
Start(s, a) ==
  /\ calls[s].pc = "idle"
  /\ Len(listeners) < MaxListeners
  /\ LET c == [InitCall EXCEPT !.op = "start", !.addr = a]
     IN IF start(listener) = "stopping"
          THEN /\ calls' = [calls EXCEPT ![s] =
                              [c EXCEPT !.pc = "stopping", !.lis = listener]]
               /\ UNCHANGED <<listener, listeners>>
          ELSE /\ listeners' = Append(listeners, createListener(a))
               /\ listener' = Len(listeners) + 1
               /\ calls' = [calls EXCEPT ![s] =
                              [c EXCEPT !.pc = "listening", !.lis = Len(listeners) + 1]]
  /\ UNCHANGED <<conns, daemon>>

\* The caller invokes close().
Close(s) ==
  /\ calls[s].pc = "idle"
  /\ LET c == [InitCall EXCEPT !.op = "close"]
     IN IF close(listener) = "stopping"
          THEN /\ calls' = [calls EXCEPT ![s] =
                              [c EXCEPT !.pc = "stopping", !.lis = listener]]
               /\ UNCHANGED listener
          ELSE /\ calls' = [calls EXCEPT ![s] =
                              [c EXCEPT !.pc = "done", !.res = Resolved]]
               /\ listener' = 0
  /\ UNCHANGED <<conns, listeners, daemon>>

\* listener.close() completes: close sets this.listener = null and
\* resolves; a start that awaited it has yet to resume.
StopDone(s) ==
  /\ calls[s].pc = "stopping"
  /\ listeners' = [listeners EXCEPT ![calls[s].lis].state = "closed"]
  /\ listener' = 0
  /\ calls' = [calls EXCEPT ![s] =
                 IF @.op = "close" THEN [@ EXCEPT !.pc = "done", !.res = Resolved]
                 ELSE [@ EXCEPT !.pc = "stopped"]]
  /\ UNCHANGED <<conns, daemon>>

\* start resumes after await this.close(): it creates its listener,
\* records it and calls listen.
StartResume(s) ==
  /\ calls[s].pc = "stopped"
  /\ listeners' = Append(listeners, createListener(calls[s].addr))
  /\ listener' = Len(listeners) + 1
  /\ calls' = [calls EXCEPT ![s] =
                 [@ EXCEPT !.pc = "listening", !.lis = Len(listeners) + 1]]
  /\ UNCHANGED <<conns, daemon>>

\* listener.listen(addr) completes and start resolves.
ListenDone(s) ==
  /\ calls[s].pc = "listening"
  /\ listeners' = [listeners EXCEPT ![calls[s].lis].state =
                     IF @ = "created" THEN "listening" ELSE @]
  /\ calls' = [calls EXCEPT ![s] = [@ EXCEPT !.pc = "done", !.res = Resolved]]
  /\ UNCHANGED <<conns, listener, daemon>>

\* listener.listen(addr) fails and start rejects.
ListenFail(s) ==
  /\ calls[s].pc = "listening"
  /\ listeners' = [listeners EXCEPT ![calls[s].lis].state =
                     IF @ = "created" THEN "failed" ELSE @]
  /\ calls' = [calls EXCEPT ![s] =
                 [@ EXCEPT !.pc = "done", !.res = Rejected(ListenErrorCode, "")]]
  /\ UNCHANGED <<conns, listener, daemon>>

\* A step of the call in slot s, which calls an operation of O.
Run(s, O) ==
  \/ \E o \in O : \E b \in SUBSET ArgsOf(o) : \E k \in CountsOf(o) :
       \E a \in AddrsOf(o) : Call(s, o, b, k, a)
  \/ Pull(s)
  \/ Stop(s)
  \/ DialDone(s)
  \/ DialFail(s)
  \/ \E m \in EnvelopeFrames \cup DhtFrames \cup PsFrames
                \cup {Undefined, EmptyFrame, Malformed} :
       ReadDone(s, m)
  \/ CloseDone(s)

\* One caller that awaits each call before it makes the next: every
\* operation, every argument error, every frame.
Next == Run(1, Ops) \/ Return(1)

Spec == Init /\ [][Next]_vars

\* Two callers, one call each, in flight at the same time or one after the
\* other.
ConcOps == {"identify", "put", "openStream", "findProviders", "subscribe"}

NextConc == \E s \in Slots : Run(s, ConcOps)

SpecConc == Init /\ [][NextConc]_vars

\* One caller that starts and closes the client's listener and registers
\* stream handlers, each call awaited before the next.
NextListen ==
  \/ \E a \in Addrs : Start(1, a)
  \/ Close(1)
  \/ StopDone(1)
  \/ StartResume(1)
  \/ ListenDone(1)
  \/ ListenFail(1)
  \/ \E b \in SUBSET ArgsOf("registerStreamHandler") : \E a \in Addrs :
       Call(1, "registerStreamHandler", b, 0, a)
  \/ DialDone(1)
  \/ DialFail(1)
  \/ \E m \in EnvelopeFrames \cup {Undefined, EmptyFrame, Malformed} : ReadDone(1, m)
  \/ CloseDone(1)
  \/ Return(1)

SpecListen == Init /\ [][NextListen]_vars

\* One caller that consumes a sequence while another starts and closes
\* the client's listener.
ShutdownOps == {"subscribe", "findProviders"}

NextShutdown ==
  \/ Run(1, ShutdownOps)
  \/ \E a \in Addrs : Start(2, a)
  \/ Close(2)
  \/ StopDone(2)
  \/ StartResume(2)
  \/ ListenDone(2)
  \/ ListenFail(2)
  \/ Return(2)

SpecShutdown == Init /\ [][NextShutdown]_vars

\* The operations whose calls are to complete: all but subscribe, whose
\* sequence has no end of its own.
FiniteOps == SingleShotOps \cup DhtStreamOps

\* The frames a daemon that ends its streams may deliver next: after
\* MaxFrames frames only END or the end of the connection.
IncomingLive(o, rx) ==
  IF Len(rx) < MaxFrames THEN Incoming(o, rx)
  ELSE Incoming(o, rx) \cap {Frame("END", "none", "", ""), Undefined}

\* A read completes with a frame of a daemon that ends its streams.
ReadDoneLive(s, m) ==
  /\ m \in IncomingLive(calls[s].op, Rx(s))
  /\ Deliver(s, m)
  /\ UNCHANGED daemon

\* One call of a single-shot operation or of a DHT stream operation whose
\* consumer asks for elements until the sequence ends.
NextLive ==
  \/ \E o \in FiniteOps : \E b \in SUBSET ArgsOf(o) : \E k \in CountsOf(o) :
       \E a \in AddrsOf(o) : Call(1, o, b, k, a)
  \/ Pull(1)
  \/ DialDone(1)
  \/ DialFail(1)
  \/ \E m \in Incoming(calls[1].op, Rx(1)) : ReadDoneLive(1, m)
  \/ CloseDone(1)

\* The dial completes or fails, the daemon answers or closes the
\* connection, sh.close() completes, and the consumer of a sequence goes on
\* asking for elements.
SpecLive ==
  /\ Init /\ [][NextLive]_vars
  /\ WF_vars(DialDone(1) \/ DialFail(1))
  /\ WF_vars(\E m \in Incoming(calls[1].op, Rx(1)) : ReadDoneLive(1, m))
  /\ WF_vars(CloseDone(1))
  /\ WF_vars(Pull(1))

\* Two callers that start and close the client's listener without
\* awaiting each other.
NextRace ==
  \E s \in Slots :
    \/ \E a \in Addrs : Start(s, a)
    \/ Close(s)
    \/ StopDone(s)
    \/ StartResume(s)
    \/ ListenDone(s)
    \/ ListenFail(s)
    \/ Return(s)

SpecRace == Init /\ [][NextRace]_vars

\* One consumer of a findProviders, getClosestPeers or subscribe sequence
\* that asks for elements without awaiting the earlier ones.
NextEager ==
  \/ Run(1, StreamingOps)
  \/ PullAhead(1)

SpecEager == Init /\ [][NextEager]_vars

\* One call of identify or subscribe whose handle is closed under it or
\* after it, beside a caller that starts and closes the client's listener.
HandleOps == {"identify", "subscribe"}

NextHandle ==
  \/ Run(1, HandleOps)
  \/ \E i \in 1..MaxConns : CloseHandle(i)
  \/ \E a \in Addrs : Start(2, a)
  \/ Close(2)
  \/ StopDone(2)
  \/ StartResume(2)
  \/ ListenDone(2)
  \/ ListenFail(2)
  \/ Return(2)

SpecHandle == Init /\ [][NextHandle]_vars

\* A read that can complete does complete: the runtime runs the
\* continuation of a promise that settled.
SpecHandleFair ==
  SpecHandle /\ WF_vars(\E m \in {Undefined} : ReadDone(1, m))

----------------------------------------------------------------------------
\* The frame codec under the stream handle.

\* A byte of a length prefix below VarintBase ends the prefix; a byte from
\* VarintBase on carries seven bits and announces another byte.
VarintBase == 128

\* The maximum frame length the client configures its decoder with.
LIMIT == 2 ^ 22

RECURSIVE encodeVarint(_)
\* The length prefix of a payload of n bytes: n in groups of seven bits,
\* lowest first, in as few bytes as hold it.
encodeVarint(n) ==
  IF n < VarintBase THEN <<n>>
  ELSE <<(n % VarintBase) + VarintBase>> \o encodeVarint(n \div VarintBase)

\* encodeFrame(bytes): the payload behind its length.
encodeFrame(bytes) == encodeVarint(Len(bytes)) \o bytes

RECURSIVE readVarint(_, _, _, _)
\* Reads a length prefix of bs from position i on: its value and the
\* position behind it, or a failure when bs ends inside the prefix or the
\* prefix is longer than that of any admitted length.
readVarint(bs, i, mult, acc) ==
  IF i > Len(bs) \/ mult > LIMIT
    THEN [ok |-> FALSE, value |-> 0, next |-> i]
  ELSE IF bs[i] >= VarintBase
    THEN readVarint(bs, i + 1, mult * VarintBase,
                    acc + (bs[i] - VarintBase) * mult)
  ELSE [ok |-> TRUE, value |-> acc + bs[i] * mult, next |-> i + 1]

RECURSIVE decodeStream(_, _, _, _)
\* The decoder over the bytes bs that have arrived on a stream that has
\* ended or not: a length prefix, then as many payload bytes as it
\* announces, again and again.  It fails on a prefix that announces more
\* than limit bytes as soon as it has the prefix, and on a stream that has
\* ended inside a frame; on a stream still open it waits for the rest of
\* the frame.  Without allowEmpty it passes no empty payload on.
decodeStream(bs, limit, allowEmpty, ended) ==
  IF bs = << >> THEN [frames |-> << >>, error |-> "none"]
  ELSE LET v == readVarint(bs, 1, 1, 0)
           short == IF ended THEN "truncated" ELSE "none"
       IN IF ~v.ok /\ v.next > Len(encodeVarint(LIMIT))
            THEN [frames |-> << >>, error |-> "tooBig"]
          ELSE IF ~v.ok THEN [frames |-> << >>, error |-> short]
          ELSE IF v.value > limit THEN [frames |-> << >>, error |-> "tooBig"]
          ELSE IF v.next - 1 + v.value > Len(bs)
            THEN [frames |-> << >>, error |-> short]
          ELSE LET payload == SubSeq(bs, v.next, v.next + v.value - 1)
                   rest == decodeStream(SubSeq(bs, v.next + v.value, Len(bs)),
                                        limit, allowEmpty, ended)
               IN [frames |-> IF payload = << >> /\ ~allowEmpty
                                THEN rest.frames
                                ELSE <<payload>> \o rest.frames,
                   error |-> rest.error]

\* The decoder over the whole of a byte stream bs that has ended.
decode(bs, limit, allowEmpty) ==
  LET d == decodeStream(bs, limit, allowEmpty, TRUE)
  IN [frames |-> d.frames, error |-> d.error # "none"]

\* A decoder that is not told to allow empty payloads.
decodeFramesNoEmpty(bs) == decode(bs, LIMIT, FALSE)

\* The decoder Client.send pipes the socket into:
\* decode({ limit: LIMIT, allowEmpty: true }).
decodeFrames(bs) == decode(bs, LIMIT, TRUE)

\* A decoder that takes any length its prefix can announce.
decodeChunksUnlimited(bs, ended) == decodeStream(bs, LIMIT * VarintBase, TRUE, ended)

\* The decoder of Client.send over the bytes the socket has piped into it
\* so far: decode({ limit: LIMIT, allowEmpty: true }), socket.pipe(dec).
decodeChunks(bs, ended) == decodeStream(bs, LIMIT, TRUE, ended)

\* The bytes payloads are made of: one that reads as the prefix of an empty
\* frame, one that reads as the first byte of a longer prefix.
PayloadBytes == {0, VarintBase}

\* Payload lengths around the first length whose prefix takes two bytes.
LongLens == {VarintBase - 1, VarintBase, VarintBase + 1}

RECURSIVE SeqsUpTo(_, _)
\* The sequences over S of at most n elements.
SeqsUpTo(S, n) ==
  IF n = 0 THEN {<< >>}
  ELSE LET shorter == SeqsUpTo(S, n - 1)
       IN shorter \cup {Append(q, x) : q \in shorter, x \in S}

Payloads ==
  SeqsUpTo(PayloadBytes, MaxLen)
    \cup {[i \in 1..n |-> b] : n \in LongLens, b \in PayloadBytes}

\* A connection whose writer has the payloads ps to frame.
InitFrames ==
  /\ calls = [s \in Slots |-> InitCall]
  /\ conns \in {<<[NewConn EXCEPT !.out = ps]>> : ps \in SeqsUpTo(Payloads, MaxPayloads)}
  /\ listener = 0
  /\ listeners = <<>>
  /\ daemon = InitDaemon

\* The writer frames its next payload onto the connection:
\* enc.write(...) with enc piped into the socket.
WriteFrame(i) ==
  /\ i \in 1..Len(conns)
  /\ conns[i].framed < Len(conns[i].out)
  /\ conns' = [conns EXCEPT ![i] =
                 [@ EXCEPT !.framed = @ + 1,
                           !.wire = @ \o encodeFrame(conns[i].out[conns[i].framed + 1])]]
  /\ UNCHANGED <<calls, listener, listeners, daemon>>

\* The decoder has run over all the bytes on the connection.
DecodeWire(i) ==
  /\ i \in 1..Len(conns)
  /\ conns[i].dec.of < conns[i].framed
  /\ LET d == decodeFrames(conns[i].wire)
     IN conns' = [conns EXCEPT ![i].dec =
                    [of |-> conns[i].framed, frames |-> d.frames, error |-> d.error]]
  /\ UNCHANGED <<calls, listener, listeners, daemon>>

NextFrames ==
  \/ WriteFrame(1)
  \/ DecodeWire(1)

SpecFrames == InitFrames /\ [][NextFrames]_vars

\* The connection cn after the socket has piped its bytes into the
\* decoder.
Piped(cn) ==
  [cn EXCEPT !.seen = decodeChunks(cn.wire, cn.state = "ended")]

\* Lengths a corrupt peer announces beyond the maximum.
OversizedLens == {LIMIT + 1, LIMIT + VarintBase, 2 * LIMIT}

\* Where a frame f may be cut short: inside its prefix, right behind a
\* one-byte prefix, and before its last byte.
Cuts(f) == {k \in {1, 2, Len(f) - 1} : 0 < k /\ k < Len(f)}

\* The peer writes a whole frame and the decoder takes it.
SendFrame(i) ==
  /\ i \in 1..Len(conns)
  /\ conns[i].state = "open" /\ conns[i].bad = "none"
  /\ conns[i].framed < Len(conns[i].out)
  /\ conns' = [conns EXCEPT ![i] =
                 Piped([@ EXCEPT !.framed = @ + 1,
                                 !.wire = @ \o encodeFrame(conns[i].out[conns[i].framed + 1])])]
  /\ UNCHANGED <<calls, listener, listeners, daemon>>

\* The peer writes a length prefix that announces n bytes, more than the
\* maximum.
SendOversized(i, n) ==
  /\ i \in 1..Len(conns)
  /\ conns[i].state = "open" /\ conns[i].bad = "none"
  /\ conns' = [conns EXCEPT ![i] =
                 Piped([@ EXCEPT !.bad = "oversized",
                                 !.wire = @ \o encodeVarint(n)])]
  /\ UNCHANGED <<calls, listener, listeners, daemon>>

\* The peer writes the first k bytes of its next frame and no more.
SendPart(i, k) ==
  /\ i \in 1..Len(conns)
  /\ conns[i].state = "open" /\ conns[i].bad = "none"
  /\ conns[i].framed < Len(conns[i].out)
  /\ LET f == encodeFrame(conns[i].out[conns[i].framed + 1])
     IN /\ k \in Cuts(f)
        /\ conns' = [conns EXCEPT ![i] =
                       Piped([@ EXCEPT !.bad = "part",
                                       !.wire = @ \o SubSeq(f, 1, k)])]
  /\ UNCHANGED <<calls, listener, listeners, daemon>>

\* The peer ends the stream.
EndWire(i) ==
  /\ i \in 1..Len(conns)
  /\ conns[i].state = "open"
  /\ conns' = [conns EXCEPT ![i] = Piped([@ EXCEPT !.state = "ended"])]
  /\ UNCHANGED <<calls, listener, listeners, daemon>>

NextWire ==
  \/ SendFrame(1)
  \/ \E n \in OversizedLens : SendOversized(1, n)
  \/ \E k \in 1..(VarintBase + 2) : SendPart(1, k)
  \/ EndWire(1)

SpecWire == InitFrames /\ [][NextWire]_vars

\* One caller that puts and gets values, each call awaited before the
\* next, against a daemon that stores them.
NextStore ==
  \/ \E k \in Keys : \E v \in Vals : Ask(1, "put", k, v, "")
  \/ \E k \in Keys : Ask(1, "get", k, "", "")
  \/ DialDone(1)
  \/ DialFail(1)
  \/ Serve(1)
  \/ CloseDone(1)
  \/ Return(1)

SpecStore == Init /\ [][NextStore]_vars

\* Two callers that subscribe to topics and ask for the topics, against a
\* daemon that keeps the subscriptions of the connections that are open.
NextTopics ==
  \E s \in Slots :
    \/ \E t \in Topics : Ask(s, "subscribe", "", "", t)
    \/ Ask(s, "getTopics", "", "", "")
    \/ DialDone(s)
    \/ DialFail(s)
    \/ Serve(s)
    \/ CloseDone(s)
    \/ Return(s)

SpecTopics == Init /\ [][NextTopics]_vars

----------------------------------------------------------------------------
\* Properties.

\* The values of the VALUE frames of fs, in the order of fs.
ValuesOf(fs) ==
  LET vs == SelectSeq(fs, LAMBDA f : f.kind = "VALUE")
  IN [i \in 1..Len(vs) |-> vs[i].val]

\* The validation code that goes with argument a of operation o.
ArgCode(o, a) ==
  CASE a = "key" -> "ERR_INVALID_KEY"
    [] a = "value" -> "ERR_INVALID_VALUE"
    [] a = "peerId" -> "ERR_INVALID_PEER_ID"
    [] a = "cid" -> "ERR_INVALID_CID"
    [] a = "topic" -> "ERR_INVALID_TOPIC"
    [] a = "data" -> "ERR_INVALID_DATA"
    [] a = "protocol" -> "ERR_INVALID_PROTOCOL"
    [] a = "addrs" -> "ERR_INVALID_ADDRS_TYPE"
    [] a = "addr" /\ o = "connect" -> "ERR_NO_MULTIADDR_RECEIVED"
    [] a = "addr" /\ o # "connect" -> "ERR_INVALID_MULTIADDR"

\* The failure code that belongs to each single-shot operation.
OwnFailureCode(o) ==
  CASE o = "connect" -> "ERR_CONNECT_FAILED"
    [] o = "identify" -> "ERR_IDENTIFY_FAILED"
    [] o = "listPeers" -> "ERR_LIST_PEERS_FAILED"
    [] o = "openStream" -> "ERR_OPEN_STREAM_FAILED"
    [] o = "registerStreamHandler" -> "ERR_REGISTER_STREAM_HANDLER_FAILED"
    [] o = "put" -> "ERR_DHT_PUT_FAILED"
    [] o = "get" -> "ERR_DHT_GET_FAILED"
    [] o = "findPeer" -> "ERR_DHT_FIND_PEER_FAILED"
    [] o = "provide" -> "ERR_DHT_PROVIDE_FAILED"
    [] o = "getPublicKey" -> "ERR_DHT_GET_PUBLIC_KEY_FAILED"
    [] o = "getTopics" -> "ERR_PUBSUB_GET_TOPICS_FAILED"
    [] o = "publish" -> "ERR_PUBSUB_PUBLISH_FAILED"

RemoteFailureCodes ==
  { OwnFailureCode(o) : o \in SingleShotOps }
    \cup {"ERR_DHT_FIND_PROVIDERS_FAILED", "ERR_DHT_GET_CLOSEST_PEERS_FAILED",
          "ERR_PUBSUB_SUBSCRIBE_FAILED"}

\* C1: every send that returned dialed one connection of its own: there
\* are as many connections as handles, every connection is wrapped by
\* exactly one handle and carries exactly one request, and no two calls hold
\* a handle over the same connection.
C1_OneConnectionPerSend ==
  /\ Len(conns) = Cardinality({ s \in Slots : calls[s].sh # 0 })
  /\ \A i \in 1..Len(conns) : conns[i].handles = 1 /\ conns[i].writes = 1
  /\ \A s, t \in Slots :
       s # t /\ calls[s].sh # 0 /\ calls[t].sh # 0 => calls[s].sh # calls[t].sh

\* Two calls in flight at once, each reading on its handle.
C1_Witness ==
  /\ calls[1].pc = "reading" /\ calls[2].pc = "reading"
  /\ calls[1].sh # 0 /\ calls[2].sh # 0

\* C2: a streaming operation decodes the frames it reads in order, the
\* first one as the response envelope; a decoder of stream frames is only
\* ever applied after the first frame, and only when that frame was an OK
\* envelope.
C2_EnvelopeFirst ==
  \A s \in Slots :
    LET c == calls[s]
    IN c.op \in StreamingOps =>
         /\ Len(c.decoded) = Len(Rx(s))
         /\ c.decoded # << >> => c.decoded[1] = "Response"
         /\ \A i \in 1..Len(c.decoded) :
              c.decoded[i] \in {"DHTResponse", "PSMessage"}
                => i > 1 /\ Rx(s)[1].kind = "OK"
         /\ c.begun <=> (Rx(s) # << >> /\ Rx(s)[1].kind = "OK")

\* findProviders has decoded an envelope and two stream frames.
C2_Witness ==
  /\ calls[1].op = "findProviders"
  /\ calls[1].decoded = <<"Response", "DHTResponse", "DHTResponse">>

\* C3: on a DHT stream that is an OK envelope followed by VALUE frames the
\* results yielded are the values of the frames read, in their order,
\* whatever count is, and the sequence has not ended unless its consumer
\* stopped it; once END follows,
\* END is the last frame read, the handle is closed and the sequence
\* completes without error.
C3_EndTerminatesCleanly ==
  \A s \in Slots :
    LET c == calls[s]
        rx == Rx(s)
    IN (c.op \in DhtStreamOps /\ rx # << >> /\ rx[1].kind = "OK") =>
         /\ (\A i \in 2..Len(rx) : rx[i].kind = "VALUE") =>
              /\ c.yields = ValuesOf(rx)
              /\ ~c.stopped =>
                   (c.pc \in {"reading", "suspended"} /\ c.res = Pending)
         /\ \A e \in 2..Len(rx) :
              (rx[e].kind = "END" /\ \A i \in 2..(e - 1) : rx[i].kind = "VALUE") =>
                /\ e = Len(rx)
                /\ c.reads = Len(rx)
                /\ c.yields = ValuesOf(rx)
                /\ conns[c.sh].state = "closed"
                /\ c.pc \in {"closing", "done"}
                /\ c.pc = "done" => c.res = Resolved

\* findProviders with count 1 completed after two results.
C3_Witness ==
  /\ calls[1].op = "findProviders" /\ calls[1].count = 1
  /\ calls[1].pc = "done" /\ calls[1].res = Resolved
  /\ calls[1].yields = <<"a", "b">>
  /\ Len(Rx(1)) = 4 /\ Rx(1)[4].kind = "END"

\* C4: when the first frame of a streaming operation is an ERROR envelope,
\* nothing is yielded, no second frame is read, and the operation fails;
\* the error's message is the one the envelope carries.
C4_ErrorShortCircuits ==
  \A s \in Slots :
    LET c == calls[s]
        rx == Rx(s)
    IN (c.op \in StreamingOps /\ rx # << >> /\ rx[1].kind = "ERROR") =>
         /\ c.yields = << >>
         /\ Len(rx) = 1 /\ c.reads = 1
         /\ c.pc \in {"closing", "done"}
         /\ c.pc = "done" =>
              /\ c.res.status = "rejected"
              /\ rx[1].err = "msg" => c.res.msg = rx[1].msg

\* subscribe failed with the daemon's message.
C4_Witness ==
  /\ calls[1].op = "subscribe" /\ calls[1].pc = "done"
  /\ Rx(1) = << Frame("ERROR", "msg", "m1", "") >>
  /\ calls[1].res.status = "rejected" /\ calls[1].res.msg = "m1"

\* C5: when a frame of a DHT stream is neither VALUE nor END, it is the
\* last frame read, the handle is closed, the results of the VALUE frames
\* before it stay yielded and no other is, and the sequence fails with
\* ERR_UNEXPECTED_MESSAGE_RECEIVED.
C5_UnexpectedFrame ==
  \A s \in Slots :
    LET c == calls[s]
        rx == Rx(s)
    IN (c.op \in DhtStreamOps /\ rx # << >> /\ rx[1].kind = "OK") =>
         \A i \in 2..Len(rx) :
           rx[i].kind = "BEGIN" =>
             /\ i = Len(rx)
             /\ c.reads = Len(rx)
             /\ c.yields = ValuesOf(SubSeq(rx, 1, i - 1))
             /\ conns[c.sh].state = "closed"
             /\ c.pc \in {"closing", "done"}
             /\ c.pc = "done" =>
                  /\ c.res.status = "rejected"
                  /\ c.res.code = "ERR_UNEXPECTED_MESSAGE_RECEIVED"

\* getClosestPeers yielded one result, then failed on the unexpected frame.
C5_Witness ==
  /\ calls[1].op = "getClosestPeers" /\ calls[1].pc = "done"
  /\ calls[1].yields = <<"a">>
  /\ calls[1].res.code = "ERR_UNEXPECTED_MESSAGE_RECEIVED"

\* C6: a call that failed on an ERROR envelope has closed its handle by
\* the time its error is surfaced.
C6_ErrorEnvelopeClosesHandle ==
  \A s \in Slots :
    LET c == calls[s]
        rx == Rx(s)
    IN (c.pc = "done" /\ c.res.status = "rejected"
          /\ rx # << >> /\ rx[1].kind = "ERROR") =>
         conns[c.sh].state = "closed"

\* C7: a single-shot call with an invalid argument has rejected with the
\* validation code of one of its invalid arguments, and has dialed nothing,
\* holds no handle and has read nothing.
C7_ValidationPrecedesIO ==
  \A s \in Slots :
    LET c == calls[s]
    IN (c.op \in SingleShotOps /\ c.bad # {}) =>
         /\ c.pc = "done"
         /\ c.res.status = "rejected"
         /\ c.res.code \in { ArgCode(c.op, a) : a \in c.bad }
         /\ c.dials = 0 /\ c.sh = 0 /\ c.reads = 0

\* dht.put with a key that is no byte sequence, on a client that never
\* dialed.
C7_Witness ==
  /\ calls[1].op = "put" /\ calls[1].bad = {"key"}
  /\ calls[1].res = Rejected("ERR_INVALID_KEY", "")
  /\ conns = << >>

\* C8: a single-shot call that has its outcome: on an ERROR envelope it
\* has rejected, with the operation's own failure code and the envelope's
\* message when the envelope carries one (a non-empty msg); on an OK
\* envelope its outcome carries no remote-failure code.
C8_OwnFailureCode ==
  \A s \in Slots :
    LET c == calls[s]
        rx == Rx(s)
    IN (c.op \in SingleShotOps /\ c.pc = "done" /\ rx # << >>) =>
         /\ rx[1].kind = "ERROR" => c.res.status = "rejected"
         /\ (rx[1].kind = "ERROR" /\ rx[1].err = "msg" /\ rx[1].msg # "") =>
              c.res = Rejected(OwnFailureCode(c.op), rx[1].msg)
         /\ rx[1].kind = "OK" => c.res.code \notin RemoteFailureCodes

\* dht.get rejected with its own code and the daemon's message.
C8_Witness ==
  /\ calls[1].op = "get" /\ calls[1].pc = "done"
  /\ Rx(1) = << Frame("ERROR", "msg", "m2", "") >>
  /\ calls[1].res = Rejected("ERR_DHT_GET_FAILED", "m2")

\* C9: connect answered with an ERROR envelope rejects with
\* ERR_CONNECT_FAILED; with the envelope's message when it carries one (a
\* non-empty msg), with "unspecified" when the error object has no msg or
\* is missing.
C9_ConnectFailed ==
  \A s \in Slots :
    LET c == calls[s]
        rx == Rx(s)
    IN (c.op = "connect" /\ c.pc = "done" /\ rx # << >> /\ rx[1].kind = "ERROR") =>
         /\ c.res.status = "rejected"
         /\ c.res.code = "ERR_CONNECT_FAILED"
         /\ (rx[1].err = "msg" /\ rx[1].msg # "") => c.res.msg = rx[1].msg
         /\ rx[1].err \in {"none", "nomsg"} => c.res.msg = "unspecified"

\* connect rejected on an ERROR envelope without an error object.
C9_Witness ==
  /\ calls[1].op = "connect" /\ calls[1].pc = "done"
  /\ Rx(1) = << Frame("ERROR", "none", "", "") >>
  /\ calls[1].res = Rejected("ERR_CONNECT_FAILED", "unspecified")

C11_UnspecifiedFallback ==
  \A s \in Slots :
    LET c == calls[s]
        rx == Rx(s)
    IN (c.op \in Ops \ {"connect"} /\ c.pc = "done" /\ rx # << >>) =>
         /\ (rx[1].kind = "ERROR" /\ rx[1].err \in {"none", "nomsg"}) =>
              /\ c.res.status = "rejected"
              /\ c.res.msg = "unspecified"
              /\ c.res.code \notin {TypeErrorCode, DecodeErrorCode}
         /\ rx[1] = Undefined =>
              /\ c.res.status = "rejected"
              /\ c.res.code \notin {TypeErrorCode, DecodeErrorCode}

\* C12: a single-shot call that has returned: if it resolved and is not
\* openStream its connection is closed; whatever its outcome, its
\* connection is open no longer unless openStream detached it.
C12_SingleShotLeavesNothingOpen ==
  \A s \in Slots :
    LET c == calls[s]
    IN (c.op \in SingleShotOps /\ c.pc = "done" /\ c.sh \in 1..Len(conns)) =>
         /\ (c.res = Resolved /\ c.op # "openStream") =>
              conns[c.sh].state = "closed"
         /\ conns[c.sh].state # "open"
         /\ conns[c.sh].state = "detached" =>
              (c.op = "openStream" /\ c.res = Resolved)

\* C13: a call whose last frame could not be decoded has rejected and the
\* connection of its handle is closed.
C13_DecodeFailureClosesHandle ==
  \A s \in Slots :
    LET c == calls[s]
        rx == Rx(s)
    IN (c.op \in Ops /\ rx # << >> /\ rx[Len(rx)] = Malformed) =>
         /\ c.pc \in {"closing", "done"}
         /\ c.pc = "done" => c.res.status = "rejected"
         /\ conns[c.sh].state = "closed"

\* C14: openStream that has its outcome: on an OK envelope it resolved,
\* returned the connection its request was written on, and that connection
\* was detached, not closed; on an ERROR envelope the connection is closed,
\* the call rejected with ERR_OPEN_STREAM_FAILED and returned no connection.
C14_OpenStreamOwnership ==
  \A s \in Slots :
    LET c == calls[s]
        rx == Rx(s)
    IN (c.op = "openStream" /\ c.pc = "done" /\ rx # << >>) =>
         /\ rx[1].kind = "OK" =>
              /\ c.res = Resolved
              /\ c.ret = c.sh
              /\ conns[c.sh].state = "detached"
              /\ conns[c.sh].writes = 1
         /\ rx[1].kind = "ERROR" =>
              /\ conns[c.sh].state = "closed"
              /\ c.res.status = "rejected"
              /\ c.res.code = "ERR_OPEN_STREAM_FAILED"
              /\ c.ret = 0

\* The listeners that are listening.
Active == { i \in 1..Len(listeners) : listeners[i].state = "listening" }

\* C15 as stated: registerStreamHandler that resolved has left a listener
\* of the client listening at its address.
C15_RegisterStartsListener ==
  \A s \in Slots :
    LET c == calls[s]
    IN (c.op = "registerStreamHandler" /\ c.pc = "done" /\ c.res = Resolved) =>
         /\ listener \in Active
         /\ listeners[listener].addr = c.addr

\* C15, amended: no step of a registerStreamHandler call, from its
\* invocation to its outcome, creates, starts, stops or records a listener;
\* the client's listener is what start and close made it.
C15_RegisterLeavesListener ==
  [][\A s \in Slots :
       calls'[s].op = "registerStreamHandler" =>
         (listener' = listener /\ listeners' = listeners)]_vars

\* registerStreamHandler resolved on a client that has no listener.
C15_Witness ==
  /\ calls[1].op = "registerStreamHandler" /\ calls[1].pc = "done"
  /\ calls[1].res = Resolved
  /\ listener = 0 /\ Active = {}

\* C16: with each start and close awaited before the next call, at most
\* one listener is listening; by the time start has created its listener
\* every earlier one has stopped; a start that resolved has its own
\* listener, the newest, listening at its address and recorded; after
\* close none is listening and none is recorded.
C16_OneListener ==
  /\ Cardinality(Active) <= 1
  /\ \A s \in Slots :
       LET c == calls[s]
       IN /\ (c.op = "start" /\ c.pc \in {"listening", "done"}) =>
               /\ c.lis = Len(listeners)
               /\ \A i \in 1..(c.lis - 1) : listeners[i].state # "listening"
          /\ (c.op = "start" /\ c.pc = "done" /\ c.res = Resolved) =>
               /\ Active = {c.lis}
               /\ listener = c.lis
               /\ listeners[c.lis].addr = c.addr
          /\ (c.op = "close" /\ c.pc = "done") =>
               /\ Active = {}
               /\ listener = 0

\* A second start resolved: the first listener is closed, the second
\* listens.
C16_Witness ==
  /\ calls[1].op = "start" /\ calls[1].pc = "done" /\ calls[1].res = Resolved
  /\ Len(listeners) = 2
  /\ listeners[1].state = "closed"
  /\ listeners[2].state = "listening"
  /\ listener = 2

\* C17: a sequence whose consumer stopped before it ended, after its
\* request was sent, has the connection of its handle closed.
C17_EarlyReturnCloses ==
  \A s \in Slots :
    LET c == calls[s]
    IN (c.op \in StreamingOps /\ c.stopped /\ c.sh \in 1..Len(conns)) =>
         conns[c.sh].state = "closed"

\* C18: a subscribe sequence after its OK envelope: every step its
\* consumer asked for issued exactly one read; when the frames that
\* followed the envelope are all pubsub messages, the values yielded are
\* those of the frames, one for one and in their order, and unless the
\* consumer stopped it the sequence is not over; while its connection is
\* open the sequence never completes unless the consumer stopped it.
C18_SubscribeStream ==
  \A s \in Slots :
    LET c == calls[s]
        rx == Rx(s)
    IN (c.op = "subscribe" /\ c.begun) =>
         /\ rx[1].kind = "OK"
         /\ c.reads = 1 + c.pulls
         /\ (\A i \in 2..Len(rx) : rx[i].kind = "PSMSG") =>
              /\ c.yields = [i \in 1..(Len(rx) - 1) |-> rx[i + 1].val]
              /\ ~c.stopped =>
                   (c.pc \in {"reading", "suspended"} /\ c.res = Pending)
         /\ (conns[c.sh].state = "open" /\ ~c.stopped) => c.res # Resolved

\* A subscription that yielded the same message twice, then another, and
\* is still live.
C18_Witness ==
  /\ calls[1].op = "subscribe" /\ calls[1].pc = "suspended"
  /\ calls[1].yields = <<"a", "a", "b">>
  /\ calls[1].pulls = 3 /\ calls[1].reads = 4
  /\ conns[calls[1].sh].state = "open"

\* C19: once a read of a lazy sequence that is past its OK envelope found
\* the connection ended, the sequence is over (the step that read ends it,
\* with the error the decoder throws on the missing frame): that read is
\* the last one issued on the handle, and the values yielded are those of
\* the frames that came before it, no more.
C19_ClosureEndsSequence ==
  \A s \in Slots :
    LET c == calls[s]
        rx == Rx(s)
    IN (c.op \in StreamingOps /\ Len(rx) >= 2 /\ rx[1].kind = "OK") =>
         \A i \in 2..Len(rx) :
           rx[i] = Undefined =>
             /\ i = Len(rx)
             /\ c.pc = "done"
             /\ c.res # Pending
             /\ c.reads = Len(rx)
             /\ c.yields = [j \in 1..(i - 2) |-> rx[j + 1].val]

\* A subscription that yielded one message and ended when its connection
\* did.
C19_Witness ==
  /\ calls[1].op = "subscribe" /\ calls[1].pc = "done"
  /\ Len(Rx(1)) = 3 /\ Rx(1)[3] = Undefined
  /\ calls[1].yields = <<"a">>
  /\ conns[calls[1].sh].state = "ended"

\* C20: subscribe whose first frame is an ERROR envelope with error details
\* has rejected with a code of its own, which is neither publish's nor
\* getTopics', and has returned no sequence.
C20_SubscribeOwnCode ==
  \A s \in Slots :
    LET c == calls[s]
        rx == Rx(s)
    IN (c.op = "subscribe" /\ rx # << >> /\ rx[1].kind = "ERROR"
          /\ rx[1].err # "none") =>
         /\ c.pc = "done"
         /\ c.res.status = "rejected"
         /\ c.res.code \notin {FailureCode("publish"), FailureCode("getTopics")}
         /\ ~c.begun /\ c.yields = << >>

\* C21: with two calls in flight, a step of one call (a read that
\* completes, a close, a failure, an outcome) leaves the other call and the
\* other call's connection as they were, so a frame reaches only the call
\* whose connection carried it; and two calls of the same operation with
\* the same arguments that read the same frames on their own connections
\* have the same outcome and yielded the same values.
C21_Isolation ==
  [][\A s \in Slots : \A t \in Slots \ {s} :
       /\ calls'[s] # calls[s] =>
            /\ calls'[t] = calls[t]
            /\ calls[t].sh \in 1..Len(conns) =>
                 conns'[calls[t].sh] = conns[calls[t].sh]
       /\ (/\ calls'[s].sh # 0 /\ calls'[t].sh # 0
           /\ calls'[s].pc = "done" /\ calls'[t].pc = "done"
           /\ calls'[s].op = calls'[t].op /\ calls'[s].bad = calls'[t].bad
           /\ calls'[s].stopped = calls'[t].stopped
           /\ conns'[calls'[s].sh].rx = conns'[calls'[t].sh].rx) =>
            /\ calls'[s].res = calls'[t].res
            /\ calls'[s].yields = calls'[t].yields]_vars

\* One call closed its handle and has its outcome while the read of the
\* other, on another connection, is still pending.
C21_Witness ==
  /\ calls[1].pc = "done" /\ calls[1].sh # 0
  /\ conns[calls[1].sh].state = "closed"
  /\ calls[2].pc = "reading" /\ calls[2].sh # 0
  /\ calls[2].sh # calls[1].sh
  /\ conns[calls[2].sh].state = "open"

\* C22: the step in which a call's dial fails creates no connection and
\* no handle and writes nothing; a call rejected with the dial error has
\* that error as its outcome, has no handle, issued no read, decoded and
\* yielded nothing, and dialed once.
C22_DialFailure ==
  [][\A s \in Slots :
       calls'[s].res.code = DialErrorCode =>
         /\ calls[s].res = Pending => (calls[s].pc = "dialing" /\ conns' = conns)
         /\ calls'[s].res = Rejected(DialErrorCode, "")
         /\ calls'[s].pc = "done"
         /\ calls'[s].sh = 0
         /\ calls'[s].reads = 0
         /\ calls'[s].dials = 1
         /\ calls'[s].decoded = << >>
         /\ calls'[s].yields = << >>]_vars

\* dht.get rejected with the dial error after an earlier call had dialed
\* with success.
C22_Witness ==
  /\ calls[1].op = "get" /\ calls[1].pc = "done"
  /\ calls[1].res = Rejected(DialErrorCode, "")
  /\ calls[1].sh = 0
  /\ Len(conns) = 1

\* C23: a call of an operation has dialed at most once, and exactly once
\* when it passed validation and has an outcome other than that of a
\* consumer who stopped before asking for an element; its handle is the
\* only one over its connection and exactly one request was written on it,
\* before any read; a call without handle has read nothing; every
\* connection carries exactly one request.
C23_OneDialOneWrite ==
  /\ \A i \in 1..Len(conns) : conns[i].writes = 1 /\ conns[i].handles = 1
  /\ \A s \in Slots :
       LET c == calls[s]
       IN c.op \in Ops =>
            /\ c.dials <= 1
            /\ (Validate(c.op, c.bad) = "ok" /\ c.pc = "done" /\ c.pulls + c.reads > 0)
                 => c.dials = 1
            /\ Validate(c.op, c.bad) # "ok" => c.dials = 0
            /\ c.sh = 0 => c.reads = 0
            /\ c.sh # 0 => (c.dials = 1 /\ conns[c.sh].writes = 1)

\* getClosestPeers failed on an unexpected frame after one dial, one
\* request and three reads.
C23_Witness ==
  /\ calls[1].op = "getClosestPeers" /\ calls[1].pc = "done"
  /\ calls[1].res.code = "ERR_UNEXPECTED_MESSAGE_RECEIVED"
  /\ calls[1].dials = 1 /\ calls[1].reads = 3
  /\ conns[calls[1].sh].writes = 1

\* C24: findProviders called with an invalid cid, getClosestPeers with an
\* invalid key: the call itself returns the sequence and fails nothing;
\* once the first element was asked for the sequence has failed with
\* ERR_INVALID_CID, ERR_INVALID_KEY; it yields nothing and never dials.
C24_LazyValidation ==
  \A s \in Slots :
    LET c == calls[s]
    IN (c.op \in DhtStreamOps /\ c.bad # {}) =>
         /\ c.dials = 0 /\ c.sh = 0 /\ c.reads = 0
         /\ c.yields = << >>
         /\ c.pulls = 0 => (c.res = Pending \/ c.stopped)
         /\ c.pulls > 0 =>
              /\ c.pc = "done"
              /\ c.res = Rejected(IF c.op = "findProviders" THEN "ERR_INVALID_CID"
                                  ELSE "ERR_INVALID_KEY", "")

\* getClosestPeers with an invalid key failed at the first element asked
\* for.
C24_Witness ==
  /\ calls[1].op = "getClosestPeers" /\ calls[1].bad # {}
  /\ calls[1].pulls = 1
  /\ calls[1].res = Rejected("ERR_INVALID_KEY", "")
  /\ conns = << >>

\* C25: against a daemon that stores values: once dht.put(k, v) has
\* resolved the daemon holds v under k; dht.get(k) that resolved returned
\* exactly the value the daemon holds under k, which is a value that was
\* put; and dht.get(k) answered while the daemon holds a value under k
\* resolves.  With each call awaited before the next, the value held under
\* k is the one of the last put(k, v) that resolved.
C25_PutGetRoundTrip ==
  \A s \in Slots :
    LET c == calls[s]
    IN /\ (c.op = "put" /\ c.pc = "done" /\ c.res = Resolved) =>
            daemon.store[c.key] = c.value
       /\ (c.op = "get" /\ c.pc = "done" /\ c.res = Resolved) =>
            /\ c.got = daemon.store[c.key]
            /\ c.got \in Vals
       /\ (c.op = "get" /\ c.pc = "done" /\ c.sh # 0
             /\ daemon.store[c.key] # NoValue) =>
            c.res = Resolved

\* dht.get("k1") returned "b" from a daemon that holds "b" under k1 and
\* "a" under k2.
C25_Witness ==
  /\ calls[1].op = "get" /\ calls[1].key = "k1"
  /\ calls[1].pc = "done" /\ calls[1].res = Resolved
  /\ calls[1].got = "b"
  /\ daemon.store["k2"] = "a"

\* C26: against a daemon that keeps the subscriptions of open connections:
\* a subscription that resolved and is live has its connection open;
\* getTopics that resolved returned the empty list when the daemon never
\* accepted a subscription, and exactly [t] when subscribe(t) had resolved
\* before getTopics was invoked; getTopics ran on a connection of its own.
C26_TopicsFollowSubscriptions ==
  \A s \in Slots :
    LET c == calls[s]
    IN /\ (c.op = "subscribe" /\ c.begun /\ c.pc = "suspended") =>
            conns[c.sh].state = "open"
       /\ (c.op = "getTopics" /\ c.pc = "done" /\ c.res = Resolved) =>
            /\ daemon.subs = << >> => c.topics = << >>
            /\ \A t \in c.before : c.topics = <<t>>
            /\ \A u \in Slots \ {s} : calls[u].sh # c.sh

\* getTopics returned [t2] while the subscription to t2 is live in the
\* other slot.
C26_Witness ==
  /\ calls[1].op = "subscribe" /\ calls[1].topic = "t2"
  /\ calls[1].begun /\ calls[1].pc = "suspended"
  /\ calls[2].op = "getTopics" /\ calls[2].pc = "done"
  /\ calls[2].res = Resolved
  /\ calls[2].topics = <<"t2">>

\* C27: when client.close() resolves, no connection the client dialed is
\* open, that of a live subscription or of an unfinished DHT stream
\* included, and no listener it created is listening.
C27_CloseClosesEverything ==
  [][\A s \in Slots :
       (calls'[s].op = "close" /\ calls'[s].pc = "done" /\ calls[s].pc # "done") =>
         /\ \A i \in 1..Len(conns') : conns'[i].state # "open"
         /\ \A i \in 1..Len(listeners') : listeners'[i].state # "listening"]_vars

\* C28: close is idempotent.  A close() on a Stream Handle that is already
\* closed does not throw and leaves the handle as it was (only the count of
\* close calls moves), and a Client.close() invoked while no listener is
\* recorded resolves at once and changes neither the listener, nor the
\* listeners, nor the connections.
C28_IdempotentClose ==
  [][/\ \A i \in 1..Len(conns) :
          (conns[i].state = "closed" /\ conns'[i].closes > conns[i].closes) =>
            /\ ~conns'[i].threw
            /\ [conns'[i] EXCEPT !.closes = conns[i].closes] = conns[i]
     /\ \A s \in Slots :
          (calls[s].pc = "idle" /\ calls'[s].op = "close" /\ listener = 0) =>
            /\ calls'[s].pc = "done"
            /\ calls'[s].res = Resolved
            /\ UNCHANGED <<listener, listeners, conns>>]_vars

\* A handle took two close() calls and is closed, and a Client.close()
\* invoked with no listener recorded, after an earlier close had stopped
\* one, has resolved.
C28_Witness ==
  /\ \E i \in 1..Len(conns) :
       conns[i].closes = 2 /\ conns[i].state = "closed" /\ ~conns[i].threw
  /\ calls[2].op = "close" /\ calls[2].pc = "done" /\ calls[2].lis = 0
  /\ calls[2].res = Resolved
  /\ listener = 0
  /\ \E j \in 1..Len(listeners) : listeners[j].state = "closed"

\* C29: a read pending on a stream handle that has been closed completes,
\* and it completes with the end-of-stream marker: the call does not stay
\* in its read for ever after the close.
C29_ClosedHandleUnblocksRead ==
  /\ (/\ calls[1].pc = "reading"
      /\ calls[1].sh \in 1..Len(conns)
      /\ conns[calls[1].sh].state = "closed") ~> (calls[1].pc # "reading")
  /\ [][(/\ calls[1].pc = "reading"
          /\ calls[1].sh \in 1..Len(conns)
          /\ conns[calls[1].sh].state = "closed"
          /\ calls'[1] # calls[1]) =>
           conns'[calls[1].sh].rx = Append(conns[calls[1].sh].rx, Undefined)]_vars

\* A subscription's iteration step was waiting for the next message when
\* its handle was closed, and the step has completed with the
\* end-of-stream marker.
C29_Witness ==
  /\ calls[1].op = "subscribe" /\ calls[1].pulls > 0
  /\ calls[1].pc # "reading"
  /\ calls[1].sh \in 1..Len(conns)
  /\ conns[calls[1].sh].state = "closed" /\ conns[calls[1].sh].unblocked
  /\ Len(Rx(1)) >= 2
  /\ Rx(1)[Len(Rx(1))] = Undefined

\* C30: framing round trip.  Whatever payloads have been framed back to
\* back onto a connection, the empty payload and payloads whose length
\* takes a two-byte prefix among them, decoding the bytes on the connection
\* yields exactly those payloads in their order and no failure; for one
\* payload P that is the one-element sequence <<P>>.  A frame is never its
\* payload alone.
C30_FramingRoundTrip ==
  \A i \in 1..Len(conns) :
    LET cn == conns[i]
    IN /\ cn.dec.of > 0 =>
            /\ ~cn.dec.error
            /\ cn.dec.frames = SubSeq(cn.out, 1, cn.dec.of)
       /\ cn.framed > 0 =>
            /\ cn.wire # cn.out[1]
            /\ decodeFrames(encodeFrame(cn.out[1])) =
                 [frames |-> <<cn.out[1]>>, error |-> FALSE]

\* The empty payload and a payload of VarintBase bytes, framed back to
\* back behind a two-byte prefix for the second, have been decoded.
C30_Witness ==
  /\ Len(conns) = 1
  /\ conns[1].out = <<<< >>, [k \in 1..VarintBase |-> VarintBase]>>
  /\ conns[1].dec.of = 2
  /\ conns[1].dec.frames = conns[1].out
  /\ Len(conns[1].wire) = VarintBase + 3

\* C31: a length prefix that announces more than 4 MiB makes the decoder
\* fail as soon as it has the prefix, whether or not the stream has ended,
\* and a stream that has ended inside a frame makes it fail; either way
\* the decoder has yielded the whole frames before the bad one and no
\* payload for the bad one.  It never yields a payload that was not
\* framed whole.
C31_FrameErrors ==
  \A i \in 1..Len(conns) :
    LET cn == conns[i]
    IN /\ cn.seen.frames = SubSeq(cn.out, 1, cn.framed)
       /\ cn.bad = "oversized" => cn.seen.error = "tooBig"
       /\ (cn.bad = "part" /\ cn.state = "ended") => cn.seen.error = "truncated"
       /\ cn.bad = "none" => cn.seen.error = "none"

\* After one whole frame the peer announced 4 MiB + 1 bytes on a stream
\* still open, and the decoder has failed with that one payload yielded.
C31_WitnessOversized ==
  /\ Len(conns) = 1
  /\ conns[1].state = "open" /\ conns[1].bad = "oversized"
  /\ conns[1].framed = 1
  /\ conns[1].wire = encodeFrame(conns[1].out[1]) \o encodeVarint(4 * 1024 * 1024 + 1)
  /\ conns[1].seen = [frames |-> <<conns[1].out[1]>>, error |-> "tooBig"]

\* C32: close or detach is the last use of a handle.  Once the handle over
\* a connection is closed or its raw connection detached, no step writes a
\* request on it, no step reads a frame from it, and the call that holds
\* it is not in a read and issues no further read.
C32_NoUseAfterClose ==
  [][/\ \A i \in 1..Len(conns) :
          conns[i].state \in {"closed", "detached"} =>
            /\ conns'[i].state = conns[i].state
            /\ conns'[i].writes = conns[i].writes
            /\ Len(conns'[i].rx) <= Len(conns[i].rx)
            /\ \A s \in Slots :
                 calls'[s].sh = i => calls'[s].reads <= calls[s].reads
     /\ \A i \in 1..Len(conns') :
          conns'[i].state \in {"closed", "detached"} =>
            \A s \in Slots : calls'[s].sh = i => calls'[s].pc # "reading"]_vars

\* A call closed its handle and returned, and afterwards an openStream
\* detached the raw connection of its own handle and returned it.
C32_Witness ==
  /\ Len(conns) = 2
  /\ conns[1].state = "closed" /\ conns[1].closes = 1
  /\ conns[2].state = "detached"
  /\ calls[1].op = "openStream" /\ calls[1].pc = "done"
  /\ calls[1].res = Resolved /\ calls[1].ret = 2

\* C33: at most one read is in flight on a handle.  Of the reads a call has
\* issued on its handle all but at most one have completed, and one is
\* outstanding only while the call is in its read, however many elements
\* the consumer of the sequence has asked for without awaiting them.
C33_OneReadInFlight ==
  \A s \in Slots :
    LET c == calls[s]
    IN c.sh # 0 =>
         /\ c.reads - Len(Rx(s)) \in {0, 1}
         /\ c.reads - Len(Rx(s)) = 1 <=> c.pc = "reading"

\* A findProviders sequence has yielded a result and is in its next read
\* while two more requests for elements wait behind it.
C33_Witness ==
  /\ calls[1].op = "findProviders" /\ calls[1].pc = "reading"
  /\ Len(calls[1].yields) = 1
  /\ calls[1].queued = 2 /\ calls[1].pulls = 4
  /\ calls[1].reads = Len(Rx(1)) + 1

\* C34: findProviders and getClosestPeers are demand-driven.  Before the
\* consumer has asked for the first element the call has dialed nothing
\* and has no handle; afterwards the frames of the DHT stream read from
\* the handle, and the reads issued for them, number at most the elements
\* the consumer has asked for.
C34_DemandDriven ==
  \A s \in Slots :
    LET c == calls[s]
    IN c.op \in DhtStreamOps =>
         /\ c.pulls = 0 => (c.dials = 0 /\ c.sh = 0 /\ c.reads = 0)
         /\ c.sh # 0 => Len(Rx(s)) - 1 <= c.pulls
         /\ c.reads - 1 <= c.pulls

\* The consumer of getClosestPeers asked for two elements and got them:
\* the envelope and two frames of the stream have been read, no third.
C34_Witness ==
  /\ calls[1].op = "getClosestPeers" /\ calls[1].pc = "suspended"
  /\ calls[1].pulls = 2 /\ Len(calls[1].yields) = 2
  /\ Len(Rx(1)) = 3 /\ calls[1].reads = 3

\* The code reported for the set bad of invalid arguments when the codes
\* in order take precedence from left to right.
FirstCode(order, bad) ==
  LET hit == { i \in 1..Len(order) : order[i][1] \in bad }
  IN order[CHOOSE i \in hit : \A j \in hit : i <= j][2]

\* C35: with several invalid arguments the code reported is that of the
\* first check in argument order: connect reports ERR_INVALID_PEER_ID
\* before ERR_INVALID_ADDRS_TYPE before ERR_NO_MULTIADDR_RECEIVED, put
\* ERR_INVALID_KEY before ERR_INVALID_VALUE, publish ERR_INVALID_TOPIC
\* before ERR_INVALID_DATA, openStream ERR_INVALID_PEER_ID and
\* registerStreamHandler ERR_INVALID_MULTIADDR before
\* ERR_INVALID_PROTOCOL; the call is rejected with it before any dial.
C35_FirstCheckWins ==
  \A s \in Slots :
    LET c == calls[s]
        order ==
          CASE c.op = "connect" ->
                 << <<"peerId", "ERR_INVALID_PEER_ID">>,
                    <<"addrs", "ERR_INVALID_ADDRS_TYPE">>,
                    <<"addr", "ERR_NO_MULTIADDR_RECEIVED">> >>
            [] c.op = "put" ->
                 << <<"key", "ERR_INVALID_KEY">>, <<"value", "ERR_INVALID_VALUE">> >>
            [] c.op = "publish" ->
                 << <<"topic", "ERR_INVALID_TOPIC">>, <<"data", "ERR_INVALID_DATA">> >>
            [] c.op = "openStream" ->
                 << <<"peerId", "ERR_INVALID_PEER_ID">>,
                    <<"protocol", "ERR_INVALID_PROTOCOL">> >>
            [] c.op = "registerStreamHandler" ->
                 << <<"addr", "ERR_INVALID_MULTIADDR">>,
                    <<"protocol", "ERR_INVALID_PROTOCOL">> >>
            [] OTHER -> << >>
    IN (order # << >> /\ c.bad # {} /\ c.pc # "idle") =>
         /\ c.pc = "done"
         /\ c.res = Rejected(FirstCode(order, c.bad), "")
         /\ c.dials = 0 /\ c.sh = 0

\* connect was called with an invalid peer id, addrs that are no array and
\* an address that is no multiaddr, and reported the peer id.
C35_Witness ==
  /\ calls[1].op = "connect"
  /\ calls[1].bad = {"peerId", "addrs", "addr"}
  /\ calls[1].pc = "done"
  /\ calls[1].res = Rejected("ERR_INVALID_PEER_ID", "")

\* C36: once all the start() and close() calls issued on the client have
\* completed, every listener the client created that is still listening
\* is the one the client records as its current listener; so at most one
\* is listening, and none is listening unrecorded.
C36_NoOrphanListener ==
  (\A s \in Slots : calls[s].pc \in {"idle", "done"}) =>
    \A j \in 1..Len(listeners) : listeners[j].state = "listening" => j = listener

\* C37: when start has rejected because listening failed, the client
\* records no listener, as after close(); no listener that failed to
\* listen is the client's current listener.
C37_FailedStartRecordsNothing ==
  /\ \A s \in Slots :
       (/\ calls[s].op = "start" /\ calls[s].pc = "done"
        /\ calls[s].res = Rejected(ListenErrorCode, "")) => listener = 0
  /\ listener # 0 => listeners[listener].state # "failed"

\* C38: with a daemon that answers every request with an envelope or closes
\* the connection and ends every DHT stream with END or closes the
\* connection, a call of a single-shot operation that has been made
\* resolves or rejects, and a findProviders or getClosestPeers sequence
\* whose consumer keeps asking for elements completes or fails: no call
\* stays pending for ever.
C38_CallsComplete ==
  (calls[1].pc # "idle") ~> (calls[1].pc = "done" /\ calls[1].res # Pending)

\* A findProviders sequence was consumed to its end: three elements were
\* asked for, two results came and then END, and the sequence completed.
C38_Witness ==
  /\ calls[1].op = "findProviders" /\ calls[1].pc = "done"
  /\ calls[1].res = Resolved /\ ~calls[1].stopped
  /\ calls[1].pulls = 3 /\ Len(calls[1].yields) = 2
  /\ Len(Rx(1)) = 4 /\ Rx(1)[4].kind = "END"

====
